---- MODULE Spec2Model ----
(***************************************************************************)
(* Verification development for the ai-collab-framework state machines:    *)
(*   - lossCutJudgmentMachine   (src/src/machines/losscut-judgment.ts)      *)
(*   - verificationLoopMachine  (src/src/machines/verification-loop.ts)     *)
(*   - mainFlowMachine          (src/main-flow.ts)                          *)
(*   - recoveryFlowMachine      (src/src/machines/l0l4-hierarchy.ts)        *)
(*                                                                         *)
(* The machines are XState v5 machines.  One TLA+ action is one macrostep: *)
(* the handling of one external event (or of the delayed `after` event)    *)
(* together with the whole chain of eventless (`always`) transitions and   *)
(* `onDone` transitions that it triggers.                                  *)
(*                                                                         *)
(* Three specifications share the variables:                               *)
(*   Spec    the orchestrator (mainFlowMachine), the outputs of its        *)
(*           invoked actors being inputs of the done-handlers;             *)
(*   SpecLC  the stand-alone loss-cut judgment machine, started from an    *)
(*           arbitrary LossCutContext (as the unit tests do);              *)
(*   SpecVL  the stand-alone verification loop with its 30-minute timer;   *)
(*   SpecRF  the stand-alone recovery flow with its escalation judgment,   *)
(*           SpecRFLive the same with every awaited event delivered.       *)
(* A nullable field is a sequence of length at most one: None is null.     *)
(***************************************************************************)
EXTENDS Integers, Sequences, FiniteSets, TLC

VARIABLES
    now,            \* the wall clock, Date.now(), in ms
    lcState,        \* lossCutJudgmentMachine: the state value
    lcCtx,          \* lossCutJudgmentMachine: the context (LossCutContext)
    lcTrace,        \* history: the state nodes entered by the last macrostep
    lcPrev,         \* history: the decision of the previous judgment of lcCtx
    vlState,        \* verificationLoopMachine: the state value
    vlCtx,          \* verificationLoopMachine: the context
    vlTimer,        \* the scheduled `after` event: [pending, deadline]
    vlRunStart,     \* history: the instant the actor was started
    vlFiredAt,      \* history: the instants at which the timer fired
    vlArmed,        \* history: how many times the timer was scheduled
    vlLog,          \* history: one record per judgment of the run
    vlEntries,      \* history: the stages entered since typecheck was last entered
    vlEvent,        \* history: the event (or clock step) processed last
    vlCalls,        \* history: how many stage entries the run has made and how
                    \* many times each principle check was invoked
    mfState,        \* mainFlowMachine: the state value
    mfCtx,          \* mainFlowMachine: the context (MainFlowContext)
    mfReviewed,     \* history: HUMAN_REVIEW_DONE processed since the last EXECUTE_AI
    mfEvent,        \* history: the event processed last
    mfGatePassed,   \* history: BRIGHT_LINES_PASS processed since brightLinesCheck
                    \* was last entered
    mfSp3Output,    \* history: the output of the sp3Machine run that ended last
    rfState,        \* recoveryFlowMachine: the state value
    rfCtx,          \* recoveryFlowMachine: the context (RecoveryFlowContext)
    rfInjected,     \* which of the injectable actions are provided as assigns
    rfEsTrace,      \* history: the state nodes of escalationJudgment entered
                    \* since it was last entered
    rfHandled,      \* history: the events that caused a transition, in order
    rfEvent,        \* history: the event sent last
    rfRecordEntries, \* history: how many times recordToClaudeMd was entered
    rfReentryParity, \* history: parity of the number of times onDone of the
                    \* judgment led back into approachSelection and it ran again
    l03State,       \* l0l3CheckMachine: the state value
    l03Ctx,         \* l0l3CheckMachine: the context (L0L3CheckContext)
    l03Order,       \* history: the levels evaluated, in order
    l03Event,       \* history: the event sent last
    sp2State,       \* sp2DivisionMachine: the state value
    sp2Ctx,         \* sp2DivisionMachine: the context (SP2Context)
    sp2Path,        \* history: the states entered, in order
    sp2Event        \* history: the event sent last

vars == <<now, lcState, lcCtx, lcTrace, lcPrev, vlState, vlCtx, vlTimer,
          vlRunStart, vlFiredAt, vlArmed, vlLog, vlEntries, vlEvent,
          vlCalls, mfState, mfCtx, mfReviewed, mfEvent, mfGatePassed, mfSp3Output,
          rfState, rfCtx, rfInjected, rfEsTrace,
          rfHandled, rfEvent, rfRecordEntries, rfReentryParity,
          l03State, l03Ctx, l03Order, l03Event,
          sp2State, sp2Ctx, sp2Path, sp2Event>>

lcVars == <<lcState, lcCtx, lcTrace, lcPrev>>
vlVars == <<vlState, vlCtx, vlTimer, vlRunStart, vlFiredAt, vlArmed, vlLog,
            vlEntries, vlEvent, vlCalls>>
mfVars == <<mfState, mfCtx, mfReviewed, mfEvent, mfGatePassed, mfSp3Output>>
rfVars == <<rfState, rfCtx, rfInjected, rfEsTrace, rfHandled, rfEvent,
            rfRecordEntries, rfReentryParity>>
l03Vars == <<l03State, l03Ctx, l03Order, l03Event>>
sp2Vars == <<sp2State, sp2Ctx, sp2Path, sp2Event>>
subVars == <<l03Vars, sp2Vars>>

-----------------------------------------------------------------------------
(* Bounds of the model *)

\* check events of the verification loop carry a message numbered 1..MaxMsg
MaxMsg == 3
\* longest errorHistory of a context handed to the stand-alone judgment
MaxHist == 2
\* largest errorCount of a context handed to the stand-alone judgment
MaxErrorCount == 4
\* largest adjustmentCount the orchestrator is followed to
MaxAdjust == 2
\* largest retreatCount of a problem analysis
MaxRetreat == 4
MaxOutHist == 2

-----------------------------------------------------------------------------
(* Data *)

None == <<>>
Some(x) == <<x>>
Option(S) == {None} \cup {Some(x) : x \in S}

Steps == {"typecheck", "lint", "test"}
Msgs == 1..MaxMsg
ComplexityDeltas == {"increased", "unchanged", "decreased"}

ErrorInfo(stamps) == [step : Steps, message : Msgs, timestamp : stamps]
ErrorRecord(errs, deltas) ==
    [error : errs, fixAttempt : {""}, complexityDelta : deltas]

SeqsUpTo(S, n) == UNION {[1..k -> S] : k \in 0..n}

Last(s) == s[Len(s)]

-----------------------------------------------------------------------------
(* Program constants *)

\* `ctx.errorCount >= 3`
ErrorCountLimit == 3
\* `Date.now() - ctx.startedAt >= 1800000`
Over30MinMs == 1800000
\* Faulty variant of TimerDelayMs: the delayed event is one millisecond late.
TimerDelayLate == 1800000 + 1

\* `after: { 1800000: ... }`
TimerDelayMs == 1800000

-----------------------------------------------------------------------------
(* Loss-cut guards: losscut-judgment.ts, reused by verification-loop.ts *)

\* Faulty variant of checkErrorCount3OrMore: `>` for `>=`.
checkErrorCountMoreThan3(ctx) == ctx.errorCount > ErrorCountLimit

checkErrorCount3OrMore(ctx) == ctx.errorCount >= ErrorCountLimit

\* Faulty variant of checkOver30Min: `>` for `>=`.
checkOver30MinExclusive(ctx, dateNow) == dateNow - ctx.startedAt > Over30MinMs

\* Date.now() is the second argument
checkOver30Min(ctx, dateNow) == dateNow - ctx.startedAt >= Over30MinMs

\* `latest?.complexityDelta === 'increased'`: undefined for an empty history
checkGrowingComplexity(ctx) ==
    /\ Len(ctx.errorHistory) > 0
    /\ Last(ctx.errorHistory).complexityDelta = "increased"

\* Faulty variant of SliceButLast: the whole history, the current entry included.
SliceNothing(h) == h

\* errorHistory.slice(0, -1)
SliceButLast(h) == SubSeq(h, 1, Len(h) - 1)

checkRecurringError(ctx) ==
    IF ctx.lastError = None
    THEN FALSE
    ELSE LET current == ctx.lastError[1]
             past == SliceButLast(ctx.errorHistory)
         IN  \E k \in DOMAIN past :
                /\ past[k].error.message = current.message
                /\ past[k].error.step = current.step

-----------------------------------------------------------------------------
(* lossCutJudgmentMachine *)

LCFinal == {"continueFix", "lossCutConfirmed"}

\* Faulty variant of LCJudge: the time rule is evaluated before the count rule.
LCJudgeTimeFirst(ctx, dateNow) ==
    IF checkOver30Min(ctx, dateNow)
    THEN [trace |-> <<"check30Min", "lossCutConfirmed">>, decision |-> "cut"]
    ELSE IF checkErrorCount3OrMore(ctx)
    THEN [trace |-> <<"check30Min", "check3Times", "lossCutConfirmed">>,
          decision |-> "cut"]
    ELSE IF checkGrowingComplexity(ctx)
    THEN [trace |-> <<"check30Min", "check3Times", "checkComplexity",
                      "lossCutConfirmed">>,
          decision |-> "cut"]
    ELSE IF checkRecurringError(ctx)
    THEN [trace |-> <<"check30Min", "check3Times", "checkComplexity",
                      "checkRecurrence", "lossCutConfirmed">>,
          decision |-> "cut"]
    ELSE [trace |-> <<"check30Min", "check3Times", "checkComplexity",
                      "checkRecurrence", "continueFix">>,
          decision |-> "continue"]

\* The chain of `always` transitions check3Times -> ... -> final state:
\* the state nodes entered, in order, and the decision assigned.
LCJudge(ctx, dateNow) ==
    IF checkErrorCount3OrMore(ctx)
    THEN [trace |-> <<"check3Times", "lossCutConfirmed">>, decision |-> "cut"]
    ELSE IF checkOver30Min(ctx, dateNow)
    THEN [trace |-> <<"check3Times", "check30Min", "lossCutConfirmed">>,
          decision |-> "cut"]
    ELSE IF checkGrowingComplexity(ctx)
    THEN [trace |-> <<"check3Times", "check30Min", "checkComplexity",
                      "lossCutConfirmed">>,
          decision |-> "cut"]
    ELSE IF checkRecurringError(ctx)
    THEN [trace |-> <<"check3Times", "check30Min", "checkComplexity",
                      "checkRecurrence", "lossCutConfirmed">>,
          decision |-> "cut"]
    ELSE [trace |-> <<"check3Times", "check30Min", "checkComplexity",
                      "checkRecurrence", "continueFix">>,
          decision |-> "continue"]

\* output: ({ context }) => ({ decision: context.lossCutDecision ?? 'continue' })
LCOutput(ctx) ==
    [decision |-> IF ctx.lossCutDecision = "none" THEN "continue"
                  ELSE ctx.lossCutDecision]

\* The contexts the stand-alone machine is started from (startLC of the tests).
LCSteps == {"typecheck", "lint"}
LCMsgs == {1, 2}
LCStartedAts == {0, 1}
LCInstants == {Over30MinMs - 1, Over30MinMs, Over30MinMs + 1}
LCPastErrors == [step : LCSteps, message : LCMsgs, timestamp : {0}]
LCLastErrors == [step : LCSteps, message : LCMsgs, timestamp : {1}]
LCContexts ==
    [errorCount : 0..MaxErrorCount,
     startedAt : LCStartedAts,
     lastError : Option(LCLastErrors),
     errorHistory : SeqsUpTo(ErrorRecord(LCPastErrors, ComplexityDeltas), MaxHist),
     lossCutDecision : {"none"}]

LCInit ==
    /\ lcState = "recordErrorState"
    /\ lcCtx \in LCContexts
    /\ lcTrace = <<"recordErrorState">>
    /\ lcPrev = "none"
    /\ now \in LCInstants

\* recordErrorState.on.ERROR_STATE_RECORDED and the always-chain behind it
LCErrorStateRecorded ==
    /\ lcState = "recordErrorState"
    /\ LET r == LCJudge(lcCtx, now)
       IN  /\ lcState' = Last(r.trace)
           /\ lcCtx' = [lcCtx EXCEPT !.lossCutDecision = r.decision]
           /\ lcTrace' = r.trace
    /\ UNCHANGED <<now, lcPrev>>

\* The clock advances between the start of the actor and the event.
LCTick ==
    /\ lcState = "recordErrorState"
    /\ \E t \in LCInstants : t > now /\ now' = t
    /\ UNCHANGED lcVars

\* A second actor is started from the same context (lossCutDecision null).
LCRestart ==
    /\ lcState \in LCFinal
    /\ lcPrev = "none"
    /\ lcState' = "recordErrorState"
    /\ lcCtx' = [lcCtx EXCEPT !.lossCutDecision = "none"]
    /\ lcTrace' = <<"recordErrorState">>
    /\ lcPrev' = LCOutput(lcCtx).decision
    /\ UNCHANGED now

-----------------------------------------------------------------------------
(* verificationLoopMachine *)

VLStages == {"typecheck", "lint", "test"}
VLFinal == {"verificationPassed", "verificationFailed"}
VLRecord == "lossCutJudgment.recordErrorState"

\* Faulty variant of AfterOwner: the `after` transition is put on typecheck.
AfterOwnerTypecheck == "typecheck"

\* A variant in which the delayed transition belongs to lint.
AfterOwnerLint == "lint"

\* The state node that carries the `after` transition: the root of the machine.
\* XState schedules a delayed event when its state node is entered and cancels
\* it when the node is exited or the actor stops.
AfterOwner == "verificationLoop"

\* What a transition from `from` to `to`, taken at instant t, does to the timer.
TimerOnTransition(timer, from, to, t) ==
    IF to \in VLFinal THEN [timer EXCEPT !.pending = FALSE]
    ELSE IF AfterOwner = "verificationLoop" THEN timer
    ELSE IF to = AfterOwner THEN [pending |-> TRUE, deadline |-> t + TimerDelayMs]
    ELSE IF from = AfterOwner THEN [timer EXCEPT !.pending = FALSE]
    ELSE timer

\* Whether that transition schedules the delayed event anew.
Schedules(from, to) ==
    /\ to \notin VLFinal
    /\ AfterOwner # "verificationLoop"
    /\ to = AfterOwner

\* The two monitors run by the entry actions of typecheck, lint and test.  Their
\* implementations are injected; None is the implementation of the source,
\* which assigns nothing, the others assign the result of the check.
PrincipleCheckResults ==
    {[passed |-> TRUE, violations |-> <<>>],
     [passed |-> FALSE, violations |-> <<"A4">>]}
MonitorOutcomes == Option(PrincipleCheckResults)

ApplyMonitor(old, outcome) == IF outcome = None THEN old ELSE outcome

\* entry: [runX, checkCollaborationPrinciples, checkAIPrinciples]
EnterStage(ctx, collab, ai) ==
    [ctx EXCEPT
        !.collaborationCheckResult = ApplyMonitor(@, collab),
        !.aiPrincipleCheckResult = ApplyMonitor(@, ai)]

\* The instant at which the module was loaded: `startedAt: Date.now()` is
\* evaluated once, in the context literal of createMachine.
VLDefinedAt == 0

VLInitialContext ==
    [currentStep |-> "typecheck",
     errorCount |-> 0,
     startedAt |-> VLDefinedAt,
     lastError |-> None,
     errorHistory |-> <<>>,
     collaborationCheckResult |-> None,
     aiPrincipleCheckResult |-> None,
     lossCutDecision |-> "none"]

\* The instants the clock is observed at, and those an actor is started at.
VLInstants ==
    {0, 1, Over30MinMs - 1, Over30MinMs, Over30MinMs + 1, Over30MinMs + 2}
VLStartInstants == {0, 1}

\* The chain check3Times -> ... of the compound state lossCutJudgment.
VLJudge(ctx, dateNow) ==
    IF checkErrorCount3OrMore(ctx)
    THEN [trace |-> <<"check3Times", "lossCutConfirmed">>, decision |-> "cut"]
    ELSE IF checkOver30Min(ctx, dateNow)
    THEN [trace |-> <<"check3Times", "check30Min", "lossCutConfirmed">>,
          decision |-> "cut"]
    ELSE IF checkGrowingComplexity(ctx)
    THEN [trace |-> <<"check3Times", "check30Min", "checkComplexity",
                      "lossCutConfirmed">>,
          decision |-> "cut"]
    ELSE IF checkRecurringError(ctx)
    THEN [trace |-> <<"check3Times", "check30Min", "checkComplexity",
                      "checkRecurrence", "lossCutConfirmed">>,
          decision |-> "cut"]
    ELSE [trace |-> <<"check3Times", "check30Min", "checkComplexity",
                      "checkRecurrence", "continueFix">>,
          decision |-> "continue"]

\* guard isLossCutContinue of lossCutJudgment.onDone
isLossCutContinue(ctx) == ctx.lossCutDecision = "continue"

\* Faulty variant of VLOutput: lossCut reports the count rule only.
VLOutputCountOnly(ctx) ==
    [passed |-> ctx.lossCutDecision # "cut",
     lossCut |-> ctx.errorCount >= ErrorCountLimit,
     lastError |-> ctx.lastError,
     errorHistory |-> ctx.errorHistory,
     principleViolation |->
        /\ ctx.aiPrincipleCheckResult # None
        /\ ctx.aiPrincipleCheckResult[1].passed = FALSE]

\* output of the machine
VLOutput(ctx) ==
    [passed |-> ctx.lossCutDecision # "cut",
     lossCut |-> ctx.lossCutDecision = "cut",
     lastError |-> ctx.lastError,
     errorHistory |-> ctx.errorHistory,
     principleViolation |->
        /\ ctx.aiPrincipleCheckResult # None
        /\ ctx.aiPrincipleCheckResult[1].passed = FALSE]

\* The check-complete event each stage handles, and an event as the history
\* keeps it: its type and, for a check-complete event, result.passed.
CompleteEvent(stage) ==
    CASE stage = "typecheck" -> "TYPECHECK_COMPLETE"
      [] stage = "lint" -> "LINT_COMPLETE"
      [] stage = "test" -> "TEST_COMPLETE"
CheckEvents == {CompleteEvent(stage) : stage \in VLStages}
Ev(type, passed) == [type |-> type, passed |-> passed, error |-> None]

\* A failing check-complete event with its error: result = { passed: false,
\* error }.
EvError(type, err) == [type |-> type, passed |-> FALSE, error |-> Some(err)]

\* Faulty variant of NextStage: a passing typecheck skips lint.
NextStageSkipsLint(stage) ==
    CASE stage = "typecheck" -> "test"
      [] stage = "lint" -> "test"
      [] stage = "test" -> "verificationPassed"

\* The stage a passing check leads to.
NextStage(stage) ==
    CASE stage = "typecheck" -> "lint"
      [] stage = "lint" -> "test"
      [] stage = "test" -> "verificationPassed"

\* A variant in which lint runs its check without the two principle checks.
EntryActionsLintUnmonitored(stage) ==
    CASE stage = "typecheck" ->
            <<"runTypecheck", "checkCollaborationPrinciples", "checkAIPrinciples">>
      [] stage = "lint" -> <<"runLint">>
      [] stage = "test" ->
            <<"runTest", "checkCollaborationPrinciples", "checkAIPrinciples">>

\* states.typecheck.entry, states.lint.entry, states.test.entry
EntryActions(stage) ==
    CASE stage = "typecheck" ->
            <<"runTypecheck", "checkCollaborationPrinciples", "checkAIPrinciples">>
      [] stage = "lint" ->
            <<"runLint", "checkCollaborationPrinciples", "checkAIPrinciples">>
      [] stage = "test" ->
            <<"runTest", "checkCollaborationPrinciples", "checkAIPrinciples">>

\* How many times an action occurs in a list of entry actions.
Occurrences(actions, name) ==
    Cardinality({i \in DOMAIN actions : actions[i] = name})

NoCalls ==
    [entries |-> 0, checkCollaborationPrinciples |-> 0, checkAIPrinciples |-> 0]

\* The counts after one more entry into `stage`, its entry actions run.
CountEntry(calls, stage) ==
    [entries |-> calls.entries + 1,
     checkCollaborationPrinciples |->
        calls.checkCollaborationPrinciples
        + Occurrences(EntryActions(stage), "checkCollaborationPrinciples"),
     checkAIPrinciples |->
        calls.checkAIPrinciples
        + Occurrences(EntryActions(stage), "checkAIPrinciples")]

VLInit ==
    /\ vlState = "typecheck"
    /\ \E collab \in MonitorOutcomes, ai \in MonitorOutcomes :
          vlCtx = EnterStage(VLInitialContext, collab, ai)
    /\ now \in VLStartInstants
    /\ vlRunStart = now
    /\ vlTimer = [pending |-> TRUE, deadline |-> now + TimerDelayMs]
    /\ vlFiredAt = {}
    /\ vlArmed = 1
    /\ vlLog = <<>>
    /\ vlEntries = <<"typecheck">>
    /\ vlEvent = Ev("xstate.init", FALSE)
    /\ vlCalls = CountEntry(NoCalls, "typecheck")

\* The bookkeeping every transition of the loop shares.  Entering a stage
\* runs its entry actions.
VLGoto(to) ==
    /\ vlState' = to
    /\ vlTimer' = TimerOnTransition(vlTimer, vlState, to, now)
    /\ vlArmed' = IF Schedules(vlState, to) THEN vlArmed + 1 ELSE vlArmed
    /\ vlEntries' = IF to = "typecheck" THEN <<"typecheck">>
                    ELSE IF to \in VLStages THEN Append(vlEntries, to)
                    ELSE vlEntries
    /\ vlCalls' = IF to \in VLStages THEN CountEntry(vlCalls, to) ELSE vlCalls

\* TYPECHECK_COMPLETE / LINT_COMPLETE / TEST_COMPLETE with result.passed = true
VLCheckPassed ==
    /\ vlState \in VLStages
    /\ LET to == NextStage(vlState)
       IN  /\ VLGoto(to)
           /\ IF to \in VLStages
              THEN \E collab \in MonitorOutcomes, ai \in MonitorOutcomes :
                      vlCtx' = EnterStage(vlCtx, collab, ai)
              ELSE vlCtx' = vlCtx
    /\ vlEvent' = Ev(CompleteEvent(vlState), TRUE)
    /\ UNCHANGED <<now, vlRunStart, vlFiredAt, vlLog>>

\* A variant that rates every new failure as one that grew the code.
RecordFailureAsGrowing(ctx, err) ==
    [ctx EXCEPT
        !.errorCount = @ + 1,
        !.lastError = Some(err),
        !.errorHistory = Append(@, [error |-> err, fixAttempt |-> "",
                                    complexityDelta |-> "increased"])]

\* A variant that puts the new record in front of the history.
RecordFailurePrepends(ctx, err) ==
    [ctx EXCEPT
        !.errorCount = @ + 1,
        !.lastError = Some(err),
        !.errorHistory = <<[error |-> err, fixAttempt |-> "",
                            complexityDelta |-> "unchanged"]>> \o @]

\* A variant that counts the failure and keeps it as lastError without
\* appending it to the history.
RecordFailureNoAppend(ctx, err) ==
    [ctx EXCEPT !.errorCount = @ + 1, !.lastError = Some(err)]

\* The assign of the failure branch of a check-complete event.
RecordFailure(ctx, err) ==
    [ctx EXCEPT
        !.errorCount = @ + 1,
        !.lastError = Some(err),
        !.errorHistory = Append(@, [error |-> err, fixAttempt |-> "",
                                    complexityDelta |-> "unchanged"])]

\* The errors a failing check of `stage` reports.
CheckErrors(stage) == [step : {stage}, message : Msgs, timestamp : {0}]

\* TYPECHECK_COMPLETE / LINT_COMPLETE / TEST_COMPLETE with result.passed = false
VLCheckFailed ==
    /\ vlState \in VLStages
    /\ \E err \in CheckErrors(vlState) :
          /\ vlCtx' = RecordFailure(vlCtx, err)
          /\ vlEvent' = EvError(CompleteEvent(vlState), err)
    /\ VLGoto(VLRecord)
    /\ UNCHANGED <<now, vlRunStart, vlFiredAt, vlLog>>

\* ERROR_STATE_RECORDED in lossCutJudgment.recordErrorState, the always-chain
\* and the onDone transition of lossCutJudgment.
VLErrorStateRecorded ==
    /\ vlState = VLRecord
    /\ LET r == VLJudge(vlCtx, now)
           ctx == [vlCtx EXCEPT !.lossCutDecision = r.decision]
       IN  /\ vlCtx' = ctx
           /\ VLGoto(IF isLossCutContinue(ctx) THEN "issueFix"
                     ELSE "verificationFailed")
           /\ vlLog' = Append(vlLog, [errorCount |-> vlCtx.errorCount,
                                      decision |-> r.decision])
    /\ vlEvent' = Ev("ERROR_STATE_RECORDED", FALSE)
    /\ UNCHANGED <<now, vlRunStart, vlFiredAt>>

\* What `e.result.error!` stores in a record when the event has no error
\* field: undefined, which has neither step nor message.
MissingError == [step |-> "undefined", message |-> 0, timestamp |-> 0]

\* The assign of the failure branch for an event without error payload:
\* lastError is `e.result.error ?? null`, the record's error is undefined.
RecordFailureNoPayload(ctx) ==
    [ctx EXCEPT
        !.errorCount = @ + 1,
        !.lastError = None,
        !.errorHistory = Append(@, [error |-> MissingError, fixAttempt |-> "",
                                    complexityDelta |-> "unchanged"])]

\* TYPECHECK_COMPLETE / LINT_COMPLETE / TEST_COMPLETE with
\* result = { passed: false } and no error field
VLCheckFailedNoPayload ==
    /\ vlState \in VLStages
    /\ vlCtx' = RecordFailureNoPayload(vlCtx)
    /\ VLGoto(VLRecord)
    /\ vlEvent' = Ev(CompleteEvent(vlState), FALSE)
    /\ UNCHANGED <<now, vlRunStart, vlFiredAt, vlLog>>

\* The guard of checkRecurrence throws a TypeError: it is reached, and
\* `some` reads record.error.message of a record whose error is undefined
\* before it finds a match.
RecurrenceThrows(ctx, dateNow) ==
    /\ ~checkErrorCount3OrMore(ctx)
    /\ ~checkOver30Min(ctx, dateNow)
    /\ ~checkGrowingComplexity(ctx)
    /\ ctx.lastError # None
    /\ LET current == ctx.lastError[1]
           past == SliceButLast(ctx.errorHistory)
       IN  \E k \in DOMAIN past :
              /\ past[k].error = MissingError
              /\ \A j \in 1..(k - 1) :
                    ~(/\ past[j].error.message = current.message
                      /\ past[j].error.step = current.step)

\* ERROR_STATE_RECORDED when a guard of the always-chain throws: the actor
\* ends in error status, its delayed event cancelled, its context as it was.
VLGuardThrows ==
    /\ vlState = VLRecord
    /\ RecurrenceThrows(vlCtx, now)
    /\ vlState' = "error"
    /\ vlTimer' = [vlTimer EXCEPT !.pending = FALSE]
    /\ vlEvent' = Ev("ERROR_STATE_RECORDED", FALSE)
    /\ UNCHANGED <<now, vlCtx, vlRunStart, vlFiredAt, vlArmed, vlLog, vlEntries,
                   vlCalls>>

\* ERROR_STATE_RECORDED when every guard that is evaluated returns.
VLJudged ==
    /\ ~RecurrenceThrows(vlCtx, now)
    /\ VLErrorStateRecorded

\* A variant that leaves the decision of the last judgment in place.
FixIssuedKeepsDecision(ctx) == [ctx EXCEPT !.currentStep = "typecheck"]

\* A variant that starts the new attempt with an empty history.
FixIssuedForgetsHistory(ctx) ==
    [ctx EXCEPT !.currentStep = "typecheck", !.lossCutDecision = "none",
                !.lastError = None, !.errorHistory = <<>>]

\* A variant that starts the new attempt with errorCount 0.
FixIssuedResetsCount(ctx) ==
    [ctx EXCEPT !.currentStep = "typecheck", !.lossCutDecision = "none",
                !.errorCount = 0]

\* The assign of issueFix.on.FIX_ISSUED
FixIssuedAssign(ctx) ==
    [ctx EXCEPT !.currentStep = "typecheck", !.lossCutDecision = "none"]

\* FIX_ISSUED in issueFix
VLFixIssued ==
    /\ vlState = "issueFix"
    /\ VLGoto("typecheck")
    /\ \E collab \in MonitorOutcomes, ai \in MonitorOutcomes :
          vlCtx' = EnterStage(FixIssuedAssign(vlCtx), collab, ai)
    /\ vlEvent' = Ev("FIX_ISSUED", FALSE)
    /\ UNCHANGED <<now, vlRunStart, vlFiredAt, vlLog>>

\* A check-complete event sent while its stage is not the active state: no
\* transition of the active state node or of the root handles it, so the
\* macrostep changes neither the state value nor the context.
VLEventIgnored ==
    /\ vlState \notin VLFinal
    /\ \E stage \in VLStages \ {vlState}, passed \in BOOLEAN :
          vlEvent' = Ev(CompleteEvent(stage), passed)
    /\ UNCHANGED <<now, vlState, vlCtx, vlTimer, vlRunStart, vlFiredAt,
                   vlArmed, vlLog, vlEntries, vlCalls>>

\* The clock advances to the next observed instant; when it reaches the
\* deadline of the scheduled delayed event, the `after` transition is taken:
\* target .lossCutJudgment, entered at its initial state, context untouched.
VLTick ==
    /\ vlState \notin VLFinal
    /\ \E t \in VLInstants :
          /\ t > now
          /\ vlTimer.pending => t <= vlTimer.deadline
          /\ now' = t
          /\ IF vlTimer.pending /\ t = vlTimer.deadline
             THEN /\ vlState' = VLRecord
                  /\ vlTimer' = [vlTimer EXCEPT !.pending = FALSE]
                  /\ vlFiredAt' = vlFiredAt \cup {t}
                  /\ vlEvent' = Ev("xstate.after", FALSE)
             ELSE /\ vlEvent' = Ev("clock", FALSE)
                  /\ UNCHANGED <<vlState, vlTimer, vlFiredAt>>
    /\ UNCHANGED <<vlCtx, vlRunStart, vlArmed, vlLog, vlEntries, vlCalls>>

-----------------------------------------------------------------------------
(* mainFlowMachine *)

MFFinal == {"taskCompleted", "recoveryExit"}

\* createMainFlowContext("")
MFInitialContext ==
    [taskDescription |-> "",
     brightLinesResult |-> [hasViolation |-> FALSE, violations |-> <<>>],
     sp1Result |-> None,
     adjustmentCount |-> 0,
     sp2Result |-> None,
     executionResult |-> None,
     sp3Result |-> None,
     lastError |-> None,
     errorHistory |-> <<>>,
     recoveryResult |-> None,
     hasPrincipleViolation |-> FALSE]

\* The payloads of the events and the outputs of the invoked actors.
ViolationLists == {<<"BL1_humanJudgment">>, <<"BL3_humanReview", "BL4_independentVerify">>}
L0L3Outputs == [allPassed : BOOLEAN]
SP2Outputs ==
    {[result |-> "aiLed", promptTechnique |-> Some("zeroShot"),
      taskCharacteristic |-> "initialDraft"],
     [result |-> "humanLed", promptTechnique |-> None,
      taskCharacteristic |-> "designDecision"]}
ExecOutputs == {"draft"}
MFErrors ==
    {[step |-> "test", message |-> 1, timestamp |-> 1],
     [step |-> "lint", message |-> 2, timestamp |-> 1]}
SP3Outputs ==
    [passed : BOOLEAN,
     lossCut : BOOLEAN,
     lastError : Option(MFErrors),
     errorHistory : SeqsUpTo(ErrorRecord(MFErrors, {"unchanged"}), MaxOutHist),
     principleViolation : BOOLEAN]
RFOutputs == {[recovered |-> TRUE]}

\* An event as the history keeps it: its type and, for the done event of an
\* invoked actor, the flag of the output the guards of onDone read.
MEv(type, flag) == [type |-> type, flag |-> flag]

MFInit ==
    /\ mfState = "brightLinesCheck"
    /\ mfCtx = MFInitialContext
    /\ mfReviewed = FALSE
    /\ mfEvent = MEv("xstate.init", FALSE)
    /\ mfGatePassed = FALSE
    /\ mfSp3Output = None

\* brightLinesCheck.on.BRIGHT_LINES_PASS
BrightLinesPass ==
    /\ mfState = "brightLinesCheck"
    /\ mfState' = "sp1Check"
    /\ mfEvent' = MEv("BRIGHT_LINES_PASS", FALSE)
    /\ UNCHANGED mfSp3Output
    /\ mfGatePassed' = TRUE
    /\ UNCHANGED <<mfCtx, mfReviewed>>

\* brightLinesCheck.on.BRIGHT_LINES_FAIL
BrightLinesFail ==
    /\ mfState = "brightLinesCheck"
    /\ \E violations \in ViolationLists :
          mfCtx' = [mfCtx EXCEPT !.brightLinesResult =
                        [hasViolation |-> TRUE, violations |-> violations]]
    /\ mfState' = "brightLinesFix"
    /\ mfEvent' = MEv("BRIGHT_LINES_FAIL", FALSE)
    /\ UNCHANGED mfSp3Output
    /\ mfGatePassed' = FALSE
    /\ UNCHANGED mfReviewed

\* A variant that resumes the flow after a fix without a new check.
BrightLinesFixedSkipsCheck == "sp1Check"

\* brightLinesFix.on.BRIGHT_LINES_FIXED.target
BrightLinesFixedTarget == "brightLinesCheck"

\* brightLinesFix.on.BRIGHT_LINES_FIXED
BrightLinesFixed ==
    /\ mfState = "brightLinesFix"
    /\ mfCtx' = [mfCtx EXCEPT !.brightLinesResult =
                    [hasViolation |-> FALSE, violations |-> <<>>]]
    /\ mfState' = BrightLinesFixedTarget
    /\ mfEvent' = MEv("BRIGHT_LINES_FIXED", FALSE)
    /\ UNCHANGED mfSp3Output
    /\ mfGatePassed' = FALSE
    /\ UNCHANGED mfReviewed

\* A variant that moves on to the division whatever SP-1 reported.
Sp1TargetAlwaysDivision(output) == "sp2Division"

\* sp1Check.invoke.onDone: the guarded transition is tried first, the
\* unguarded one is the fallback.
Sp1Target(output) ==
    IF output.allPassed = TRUE THEN "sp2Division" ELSE "taskAdjustment"

\* sp1Check.invoke.onDone
Sp1Done ==
    /\ mfState = "sp1Check"
    /\ \E output \in L0L3Outputs :
          /\ mfEvent' = MEv("xstate.done.actor.sp1Machine", output.allPassed)
          /\ UNCHANGED mfSp3Output
          /\ IF output.allPassed = TRUE
             THEN /\ mfCtx' = [mfCtx EXCEPT !.sp1Result =
                                 Some([result |-> "allPass", failedLevel |-> None,
                                       evaluatedLevels |-> 4])]
                  /\ mfState' = Sp1Target(output)
             ELSE /\ mfCtx' = [mfCtx EXCEPT !.sp1Result =
                                 Some([result |-> "failed", failedLevel |-> None,
                                       evaluatedLevels |-> 4])]
                  /\ mfState' = Sp1Target(output)
    /\ UNCHANGED <<mfReviewed, mfGatePassed>>

\* taskAdjustment.on.ADJUSTMENT_DONE
AdjustmentDone ==
    /\ mfState = "taskAdjustment"
    /\ mfCtx.adjustmentCount < MaxAdjust
    /\ mfCtx' = [mfCtx EXCEPT !.adjustmentCount = @ + 1, !.sp1Result = None]
    /\ mfState' = "sp1Check"
    /\ mfEvent' = MEv("ADJUSTMENT_DONE", FALSE)
    /\ UNCHANGED mfSp3Output
    /\ UNCHANGED <<mfReviewed, mfGatePassed>>

\* sp2Division.invoke.onDone
Sp2Done ==
    /\ mfState = "sp2Division"
    /\ \E output \in SP2Outputs :
          /\ mfCtx' = [mfCtx EXCEPT !.sp2Result = Some(output)]
          /\ mfState' = IF output.result = "aiLed" THEN "aiExecution"
                        ELSE "humanExecution"
          /\ mfEvent' = MEv("xstate.done.actor.sp2Machine",
                            output.result = "aiLed")
          /\ UNCHANGED mfSp3Output
    /\ UNCHANGED <<mfReviewed, mfGatePassed>>

\* humanExecution.on.EXECUTE_HUMAN
ExecuteHuman ==
    /\ mfState = "humanExecution"
    /\ \E output \in ExecOutputs :
          mfCtx' = [mfCtx EXCEPT !.executionResult =
                        Some([output |-> output, isAiGenerated |-> FALSE,
                              humanReviewed |-> TRUE])]
    /\ mfState' = "sp3Verification"
    /\ mfEvent' = MEv("EXECUTE_HUMAN", FALSE)
    /\ UNCHANGED mfSp3Output
    /\ UNCHANGED <<mfReviewed, mfGatePassed>>

\* Faulty variant of AiExecutionTarget: EXECUTE_AI leads straight to SP-3.
AiExecutionSkipsReview == "sp3Verification"

\* the target of aiExecution.on.EXECUTE_AI
AiExecutionTarget == "humanReview"

\* aiExecution.on.EXECUTE_AI
ExecuteAi ==
    /\ mfState = "aiExecution"
    /\ \E output \in ExecOutputs :
          mfCtx' = [mfCtx EXCEPT !.executionResult =
                        Some([output |-> output, isAiGenerated |-> TRUE,
                              humanReviewed |-> FALSE])]
    /\ mfState' = AiExecutionTarget
    /\ mfReviewed' = FALSE
    /\ mfEvent' = MEv("EXECUTE_AI", FALSE)
    /\ UNCHANGED mfSp3Output
    /\ UNCHANGED mfGatePassed

\* A variant in which a rejected review keeps the orchestrator in humanReview.
HumanReviewHoldsRejected(approved) ==
    IF approved THEN "sp3Verification" ELSE "humanReview"

\* the target of humanReview.on.HUMAN_REVIEW_DONE: one transition without a
\* guard, whatever event.approved is
HumanReviewTarget(approved) == "sp3Verification"

\* humanReview.on.HUMAN_REVIEW_DONE
HumanReviewDone ==
    /\ mfState = "humanReview"
    /\ \E approved \in BOOLEAN :
          /\ mfCtx' = [mfCtx EXCEPT !.executionResult =
                          Some([mfCtx.executionResult[1] EXCEPT
                                  !.humanReviewed = approved])]
          /\ mfState' = HumanReviewTarget(approved)
          /\ mfEvent' = MEv("HUMAN_REVIEW_DONE", approved)
    /\ mfReviewed' = TRUE
    /\ UNCHANGED mfSp3Output
    /\ UNCHANGED mfGatePassed

\* Faulty variant of Sp3Branch: the onDone array without its second entry.
Sp3BranchNoLoopBack(output) ==
    IF output.passed = TRUE THEN "taskCompleted" ELSE "recoveryFlow"

\* A variant that completes the task when the loop was abandoned.
Sp3BranchCompletesOnCut(output) ==
    IF output.passed = TRUE THEN "taskCompleted"
    ELSE IF output.principleViolation = TRUE THEN "brightLinesCheck"
    ELSE "taskCompleted"

\* The branch of sp3Verification.invoke.onDone taken for an output: the
\* first transition of the array whose guard holds.
Sp3Branch(output) ==
    IF output.passed = TRUE THEN "taskCompleted"
    ELSE IF output.principleViolation = TRUE THEN "brightLinesCheck"
    ELSE "recoveryFlow"

\* A variant whose hand-over keeps the last error and drops the history.
Sp3AssignDropsHistory(ctx, output, to) ==
    CASE to = "taskCompleted" -> [ctx EXCEPT !.sp3Result = Some(output)]
      [] to = "brightLinesCheck" ->
            [ctx EXCEPT !.sp3Result = Some(output),
                        !.hasPrincipleViolation = TRUE]
      [] to = "recoveryFlow" ->
            [ctx EXCEPT !.sp3Result = Some(output),
                        !.lastError = output.lastError]

\* A variant whose loop-back starts the next round with a clean context.
Sp3AssignResetsOnLoopBack(ctx, output, to) ==
    CASE to = "taskCompleted" -> [ctx EXCEPT !.sp3Result = Some(output)]
      [] to = "brightLinesCheck" ->
            [ctx EXCEPT !.sp3Result = Some(output),
                        !.hasPrincipleViolation = TRUE,
                        !.sp1Result = None,
                        !.sp2Result = None,
                        !.executionResult = None]
      [] to = "recoveryFlow" ->
            [ctx EXCEPT !.sp3Result = Some(output),
                        !.lastError = output.lastError,
                        !.errorHistory = output.errorHistory]

\* The assign of the branch of sp3Verification.invoke.onDone that leads to
\* `to`.
Sp3Assign(ctx, output, to) ==
    CASE to = "taskCompleted" -> [ctx EXCEPT !.sp3Result = Some(output)]
      [] to = "brightLinesCheck" ->
            [ctx EXCEPT !.sp3Result = Some(output),
                        !.hasPrincipleViolation = TRUE]
      [] to = "recoveryFlow" ->
            [ctx EXCEPT !.sp3Result = Some(output),
                        !.lastError = output.lastError,
                        !.errorHistory = output.errorHistory]

\* sp3Verification.invoke.onDone
Sp3Done ==
    /\ mfState = "sp3Verification"
    /\ \E output \in SP3Outputs :
          LET to == Sp3Branch(output)
          IN  /\ mfState' = to
              /\ mfCtx' = Sp3Assign(mfCtx, output, to)
              /\ mfEvent' = MEv("xstate.done.actor.sp3Machine", output.passed)
              /\ mfSp3Output' = Some(output)
              /\ mfGatePassed' = IF to = "brightLinesCheck" THEN FALSE
                                 ELSE mfGatePassed
    /\ UNCHANGED mfReviewed

\* recoveryFlow.invoke.onDone
RfDone ==
    /\ mfState = "recoveryFlow"
    /\ \E output \in RFOutputs :
          mfCtx' = [mfCtx EXCEPT !.recoveryResult = Some(output)]
    /\ mfState' = "recoveryExit"
    /\ mfEvent' = MEv("xstate.done.actor.rfMachine", FALSE)
    /\ UNCHANGED mfSp3Output
    /\ UNCHANGED <<mfReviewed, mfGatePassed>>

\* The event each state waiting for an external event handles besides
\* BRIGHT_LINES_FAIL, which brightLinesCheck handles as well; a state that
\* runs an invoked actor handles no external event.
MFHandler(state) ==
    CASE state = "brightLinesCheck" -> "BRIGHT_LINES_PASS"
      [] state = "brightLinesFix" -> "BRIGHT_LINES_FIXED"
      [] state = "taskAdjustment" -> "ADJUSTMENT_DONE"
      [] state = "humanExecution" -> "EXECUTE_HUMAN"
      [] state = "aiExecution" -> "EXECUTE_AI"
      [] state = "humanReview" -> "HUMAN_REVIEW_DONE"
      [] OTHER -> "none"

\* The event types the machine has a handler for, and the declared result
\* events, which no state handles.
MFEvents ==
    {"BRIGHT_LINES_PASS", "BRIGHT_LINES_FAIL", "BRIGHT_LINES_FIXED",
     "ADJUSTMENT_DONE", "EXECUTE_HUMAN", "EXECUTE_AI", "HUMAN_REVIEW_DONE",
     "SP1_PASS", "SP3_PASS", "RECOVERY_DONE"}

MFHandles(state, type) ==
    \/ type = MFHandler(state)
    \/ state = "brightLinesCheck" /\ type = "BRIGHT_LINES_FAIL"

\* An event sent to a state that has no handler for it: the macrostep changes
\* neither the state value nor the context.
MFEventIgnored ==
    /\ mfState \notin MFFinal
    /\ \E type \in MFEvents :
          /\ ~MFHandles(mfState, type)
          /\ mfEvent' = MEv(type, FALSE)
          /\ UNCHANGED mfSp3Output
    /\ UNCHANGED <<mfState, mfCtx, mfReviewed, mfGatePassed>>

\* Faulty variant of MFOutput: completionType decided by lastError.
MFOutputByLastError(ctx) ==
    [completionType |-> IF ctx.lastError # None THEN "recoveryExit"
                        ELSE "taskCompleted",
     executionResult |-> ctx.executionResult,
     recoveryResult |-> ctx.recoveryResult]

\* output of the machine; `context.recoveryResult ? ... : ...` is a test of
\* truthiness, which null fails and every RecoveryFlowOutput object passes
MFOutput(ctx) ==
    [completionType |-> IF ctx.recoveryResult # None THEN "recoveryExit"
                        ELSE "taskCompleted",
     executionResult |-> ctx.executionResult,
     recoveryResult |-> ctx.recoveryResult]

-----------------------------------------------------------------------------
(* recoveryFlowMachine and its compound state escalationJudgment *)

\* ProblemAnalysis: the flags the guards read (the three texts are not read).
ProblemAnalyses ==
    [hasSecurityIssue : BOOLEAN,
     hasProductionImpact : BOOLEAN,
     hasDataLossRisk : BOOLEAN,
     retreatCount : 0..MaxRetreat,
     isUnknownCause : BOOLEAN,
     isOutOfSkillScope : BOOLEAN]

Approaches == {"A", "B", "C", "D"}

\* `retreatCount >= 3`
RetreatLimit == 3

\* checkImmediateEscalationNeeded(context.analysisResult)
checkImmediateEscalationNeeded(analysisResult) ==
    IF analysisResult = None THEN FALSE
    ELSE \/ analysisResult[1].hasSecurityIssue
         \/ analysisResult[1].hasProductionImpact
         \/ analysisResult[1].hasDataLossRisk

\* Faulty variant of checkDelayedEscalationNeeded: `>` for `>=`.
checkDelayedMoreThan3(analysisResult) ==
    IF analysisResult = None THEN FALSE
    ELSE \/ analysisResult[1].retreatCount > RetreatLimit
         \/ analysisResult[1].isUnknownCause
         \/ analysisResult[1].isOutOfSkillScope

\* checkDelayedEscalationNeeded(context.analysisResult)
checkDelayedEscalationNeeded(analysisResult) ==
    IF analysisResult = None THEN FALSE
    ELSE \/ analysisResult[1].retreatCount >= RetreatLimit
         \/ analysisResult[1].isUnknownCause
         \/ analysisResult[1].isOutOfSkillScope

\* guard isEscalationConfirmed of escalationJudgment.onDone
isEscalationConfirmed(ctx) == ctx.escalationResult = Some("escalate")

\* guard shouldShareWithTeam of teamShareDecision
shouldShareWithTeam(ctx) == ctx.shouldShareWithTeam = TRUE

RFFinal == {"recoveryComplete"}
ESFinal == {"escalationConfirmed", "selfResolution"}

\* context of createMachine
RFInitialContext ==
    [lastError |-> None,
     errorHistory |-> <<>>,
     analysisResult |-> None,
     selectedApproach |-> None,
     escalationResult |-> None,
     failureRecord |-> None,
     shouldShareWithTeam |-> FALSE]

\* The actions of setup() are no-ops that provide() replaces.  The two that
\* the tests provide as assigns: selectApproach (selectedApproach) and
\* documentWorkaround (shouldShareWithTeam).
RFInjectable == {"selectApproach", "documentWorkaround"}

\* The event each waiting state handles.
RFHandler(state) ==
    CASE state = "problemAnalysis.verbalizeProblem" -> "PROBLEM_VERBALIZED"
      [] state = "problemAnalysis.analyzeCause" -> "CAUSE_ANALYZED"
      [] state = "problemAnalysis.identifyEssence" -> "ESSENCE_IDENTIFIED"
      [] state = "escalationJudgment.executeImmediate" -> "ESCALATION_DECIDED"
      [] state = "escalationJudgment.consider30Min" -> "ESCALATION_DECIDED"
      [] state = "directResolution.humanDirectFix" -> "HUMAN_FIX_COMPLETE"
      [] state = "directResolution.askAiExplanation" -> "AI_EXPLANATION_RECEIVED"
      [] state = "redecompose" -> "REDECOMPOSE_COMPLETE"
      [] state = "resetContext" -> "CONTEXT_RESET_COMPLETE"
      [] state = "consultTeam" -> "TEAM_CONSULTED"
      [] state = "recordToClaudeMd" -> "CLAUDE_MD_RECORDED"
      [] state = "documentWorkaround" -> "WORKAROUND_DOCUMENTED"
      [] state = "shareWithTeam" -> "TEAM_SHARED"
      [] OTHER -> "none"

RFWaiting ==
    {"problemAnalysis.verbalizeProblem", "problemAnalysis.analyzeCause",
     "problemAnalysis.identifyEssence", "escalationJudgment.executeImmediate",
     "escalationJudgment.consider30Min", "directResolution.humanDirectFix",
     "directResolution.askAiExplanation", "redecompose", "resetContext",
     "consultTeam", "recordToClaudeMd", "documentWorkaround", "shareWithTeam"}

RFEvents == {RFHandler(state) : state \in RFWaiting}

\* Faulty variant of RFTarget: REDECOMPOSE_COMPLETE skips the record.
RFTargetSkipsRecord(state) ==
    CASE state = "problemAnalysis.verbalizeProblem" -> "problemAnalysis.analyzeCause"
      [] state = "problemAnalysis.analyzeCause" -> "problemAnalysis.identifyEssence"
      [] state = "directResolution.humanDirectFix" -> "directResolution.askAiExplanation"
      [] state = "directResolution.askAiExplanation" -> "recordToClaudeMd"
      [] state = "redecompose" -> "documentWorkaround"
      [] state = "resetContext" -> "recordToClaudeMd"
      [] state = "consultTeam" -> "recordToClaudeMd"
      [] state = "recordToClaudeMd" -> "documentWorkaround"
      [] state = "shareWithTeam" -> "recoveryComplete"

\* Faulty variant of RFTarget: TEAM_CONSULTED leads to documentWorkaround,
\* ahead of the record.
RFTargetDocumentFirst(state) ==
    CASE state = "problemAnalysis.verbalizeProblem" -> "problemAnalysis.analyzeCause"
      [] state = "problemAnalysis.analyzeCause" -> "problemAnalysis.identifyEssence"
      [] state = "directResolution.humanDirectFix" -> "directResolution.askAiExplanation"
      [] state = "directResolution.askAiExplanation" -> "recordToClaudeMd"
      [] state = "redecompose" -> "recordToClaudeMd"
      [] state = "resetContext" -> "recordToClaudeMd"
      [] state = "consultTeam" -> "documentWorkaround"
      [] state = "recordToClaudeMd" -> "documentWorkaround"
      [] state = "shareWithTeam" -> "recoveryComplete"

\* The target of the transition of a waiting state whose handler has a fixed
\* target and no assign.
RFTarget(state) ==
    CASE state = "problemAnalysis.verbalizeProblem" -> "problemAnalysis.analyzeCause"
      [] state = "problemAnalysis.analyzeCause" -> "problemAnalysis.identifyEssence"
      [] state = "directResolution.humanDirectFix" -> "directResolution.askAiExplanation"
      [] state = "directResolution.askAiExplanation" -> "recordToClaudeMd"
      [] state = "redecompose" -> "recordToClaudeMd"
      [] state = "resetContext" -> "recordToClaudeMd"
      [] state = "consultTeam" -> "recordToClaudeMd"
      [] state = "recordToClaudeMd" -> "documentWorkaround"
      [] state = "shareWithTeam" -> "recoveryComplete"

\* Faulty variant of ESJudge: the delayed tier is examined before the immediate.
ESJudgeDelayedFirst(ctx) ==
    IF checkDelayedEscalationNeeded(ctx.analysisResult)
    THEN [state |-> "escalationJudgment.consider30Min", ctx |-> ctx,
          trace |-> <<"check30Min", "consider30Min">>]
    ELSE IF checkImmediateEscalationNeeded(ctx.analysisResult)
    THEN [state |-> "escalationJudgment.executeImmediate", ctx |-> ctx,
          trace |-> <<"check30Min", "checkImmediate", "executeImmediate">>]
    ELSE LET c == [ctx EXCEPT !.escalationResult = Some("self")]
         IN  [state |-> IF isEscalationConfirmed(c) THEN "consultTeam"
                        ELSE "approachSelection",
              ctx |-> c,
              trace |-> <<"check30Min", "checkImmediate", "selfResolution">>]

\* Entering escalationJudgment: the always-chain from checkImmediate up to the
\* state the judgment waits in, or through selfResolution and onDone.
ESJudge(ctx) ==
    IF checkImmediateEscalationNeeded(ctx.analysisResult)
    THEN [state |-> "escalationJudgment.executeImmediate", ctx |-> ctx,
          trace |-> <<"checkImmediate", "executeImmediate">>]
    ELSE IF checkDelayedEscalationNeeded(ctx.analysisResult)
    THEN [state |-> "escalationJudgment.consider30Min", ctx |-> ctx,
          trace |-> <<"checkImmediate", "check30Min", "consider30Min">>]
    ELSE LET c == [ctx EXCEPT !.escalationResult = Some("self")]
         IN  [state |-> IF isEscalationConfirmed(c) THEN "consultTeam"
                        ELSE "approachSelection",
              ctx |-> c,
              trace |-> <<"checkImmediate", "check30Min", "selfResolution">>]

\* escalationCheck (RF-GW1): guard needsImmediateEscalation
EscalationCheck(ctx) ==
    IF checkImmediateEscalationNeeded(ctx.analysisResult)
    THEN ESJudge(ctx)
    ELSE [state |-> "approachSelection", ctx |-> ctx, trace |-> <<>>]

\* What the entry action selectApproach can leave in selectedApproach: the
\* no-op of the source leaves it alone, a provided assign sets it.
SelectChoices(ctx, injected) ==
    IF "selectApproach" \in injected THEN Option(Approaches)
    ELSE {ctx.selectedApproach}

\* approachSelection (RF-GW2): the entry action, then the always transitions.
ApproachSelection(ctx, choice) ==
    LET c == [ctx EXCEPT !.selectedApproach = choice]
    IN  IF choice = Some("A")
        THEN [state |-> "directResolution.humanDirectFix", ctx |-> c,
              trace |-> <<>>]
        ELSE IF choice = Some("B")
        THEN [state |-> "redecompose", ctx |-> c, trace |-> <<>>]
        ELSE IF choice = Some("C")
        THEN [state |-> "resetContext", ctx |-> c, trace |-> <<>>]
        ELSE ESJudge(c)

RFInit ==
    /\ rfState = "problemAnalysis.verbalizeProblem"
    /\ rfCtx = RFInitialContext
    /\ rfInjected \in SUBSET RFInjectable
    /\ rfEsTrace = <<>>
    /\ rfHandled = <<>>
    /\ rfEvent = "xstate.init"
    /\ rfRecordEntries = 0
    /\ rfReentryParity = 0

\* recoveryFlow.invoke of the orchestrator: entering recoveryFlow starts an
\* actor of rfMachine.  The invoke has no input and the machine is not
\* provided with actions, so the actor starts in its initial state with the
\* context of createMachine.  Its run is the subject of SpecRF; the
\* orchestrator sees only its done event.
InvokeRf ==
    IF mfState' = "recoveryFlow"
    THEN /\ rfState' = "problemAnalysis.verbalizeProblem"
         /\ rfCtx' = RFInitialContext
         /\ rfInjected' = {}
         /\ rfEsTrace' = <<>>
         /\ rfHandled' = <<>>
         /\ rfEvent' = "xstate.init"
         /\ rfRecordEntries' = 0
         /\ rfReentryParity' = 0
    ELSE UNCHANGED rfVars

\* The bookkeeping of a handled event that leads from rfState to `to`.
RFGoto(to) ==
    /\ rfState' = to
    /\ rfHandled' = Append(rfHandled, RFHandler(rfState))
    /\ rfEvent' = RFHandler(rfState)
    /\ rfRecordEntries' = IF to = "recordToClaudeMd" THEN rfRecordEntries + 1
                          ELSE rfRecordEntries
    /\ UNCHANGED <<rfInjected, rfReentryParity>>

\* A handler with a fixed target and no assign, in state `from`.
RFPlain(from) ==
    /\ rfState = from
    /\ RFGoto(RFTarget(from))
    /\ UNCHANGED <<rfCtx, rfEsTrace>>

\* verbalizeProblem.on.PROBLEM_VERBALIZED
RFProblemVerbalized == RFPlain("problemAnalysis.verbalizeProblem")

\* analyzeCause.on.CAUSE_ANALYZED
RFCauseAnalyzed == RFPlain("problemAnalysis.analyzeCause")

\* Faulty variant of EssenceAssign: the event's analysis is not stored.
EssenceAssignNothing(ctx, analysisResult) == ctx

\* The assign of identifyEssence.on.ESSENCE_IDENTIFIED
EssenceAssign(ctx, analysisResult) ==
    [ctx EXCEPT !.analysisResult = Some(analysisResult)]

\* identifyEssence.on.ESSENCE_IDENTIFIED, then escalationCheck and, unless the
\* judgment is entered at once, the first pass through approachSelection
RFEssenceIdentified ==
    /\ rfState = "problemAnalysis.identifyEssence"
    /\ \E analysisResult \in ProblemAnalyses :
          LET c == EssenceAssign(rfCtx, analysisResult)
              r == EscalationCheck(c)
          IN  IF r.state = "approachSelection"
              THEN \E choice \in SelectChoices(r.ctx, rfInjected) :
                      LET q == ApproachSelection(r.ctx, choice)
                      IN  /\ RFGoto(q.state)
                          /\ rfCtx' = q.ctx
                          /\ rfEsTrace' = q.trace
              ELSE /\ RFGoto(r.state)
                   /\ rfCtx' = r.ctx
                   /\ rfEsTrace' = r.trace

\* The macrostep goes on after selfResolution: escalationJudgment.onDone has
\* led back to approachSelection, which is entered again.
RFReselectApproach ==
    /\ rfState = "approachSelection"
    /\ \E choice \in SelectChoices(rfCtx, rfInjected) :
          LET q == ApproachSelection(rfCtx, choice)
          IN  /\ rfState' = q.state
              /\ rfCtx' = q.ctx
              /\ rfEsTrace' = q.trace
    /\ rfReentryParity' = 1 - rfReentryParity
    /\ UNCHANGED <<rfInjected, rfHandled, rfEvent, rfRecordEntries>>

\* executeImmediate / consider30Min .on.ESCALATION_DECIDED, then
\* escalationConfirmed and escalationJudgment.onDone
RFEscalationDecided ==
    /\ rfState \in {"escalationJudgment.executeImmediate",
                     "escalationJudgment.consider30Min"}
    /\ LET c == [rfCtx EXCEPT !.escalationResult = Some("escalate")]
       IN  /\ rfCtx' = c
           /\ RFGoto(IF isEscalationConfirmed(c) THEN "consultTeam"
                     ELSE "approachSelection")
    /\ rfEsTrace' = Append(rfEsTrace, "escalationConfirmed")

\* humanDirectFix.on.HUMAN_FIX_COMPLETE
RFHumanFixComplete == RFPlain("directResolution.humanDirectFix")

\* askAiExplanation.on.AI_EXPLANATION_RECEIVED
RFAiExplanationReceived == RFPlain("directResolution.askAiExplanation")

\* redecompose.on.REDECOMPOSE_COMPLETE
RFRedecomposeComplete == RFPlain("redecompose")

\* resetContext.on.CONTEXT_RESET_COMPLETE
RFContextResetComplete == RFPlain("resetContext")

\* consultTeam.on.TEAM_CONSULTED
RFTeamConsulted == RFPlain("consultTeam")

\* recordToClaudeMd.on.CLAUDE_MD_RECORDED; the entry action documentWorkaround
\* of the target is a no-op or a provided assign of shouldShareWithTeam
RFClaudeMdRecorded ==
    /\ rfState = "recordToClaudeMd"
    /\ RFGoto(RFTarget("recordToClaudeMd"))
    /\ \E share \in (IF "documentWorkaround" \in rfInjected THEN BOOLEAN
                       ELSE {rfCtx.shouldShareWithTeam}) :
          rfCtx' = [rfCtx EXCEPT !.shouldShareWithTeam = share]
    /\ UNCHANGED rfEsTrace

\* documentWorkaround.on.WORKAROUND_DOCUMENTED, then teamShareDecision (RF-GW3)
RFWorkaroundDocumented ==
    /\ rfState = "documentWorkaround"
    /\ RFGoto(IF shouldShareWithTeam(rfCtx) THEN "shareWithTeam"
              ELSE "recoveryComplete")
    /\ UNCHANGED <<rfCtx, rfEsTrace>>

\* shareWithTeam.on.TEAM_SHARED
RFTeamShared == RFPlain("shareWithTeam")

\* An event sent to a waiting state that has no handler for it: the macrostep
\* changes neither the state value nor the context.
RFEventIgnored ==
    /\ rfState \in RFWaiting
    /\ \E ev \in RFEvents \ {RFHandler(rfState)} : rfEvent' = ev
    /\ UNCHANGED <<rfState, rfCtx, rfInjected, rfEsTrace, rfHandled,
                   rfRecordEntries, rfReentryParity>>

\* output of the machine
RFOutput == [recovered |-> TRUE]

-----------------------------------------------------------------------------
(* l0l3CheckMachine *)

L03Checks == {"l0Check", "l1Check", "l2Check", "l3Check"}
L03Final == {"passed", "failed"}
L03Levels == <<"l0", "l1", "l2", "l3">>

\* context of createMachine
L03InitialContext ==
    [evaluationResults |->
        [l0 |-> None, l1 |-> None, l2 |-> None, l3 |-> None]]

\* LevelResult: passed and the list of issues.
IssueLists == {<<>>, <<"G1">>}
LevelResults == [passed : BOOLEAN, issues : IssueLists]

\* The level a check state evaluates and the event it waits for.
L03Level(state) ==
    CASE state = "l0Check" -> "l0"
      [] state = "l1Check" -> "l1"
      [] state = "l2Check" -> "l2"
      [] state = "l3Check" -> "l3"

L03CompleteEvent(state) ==
    CASE state = "l0Check" -> "L0_EVALUATION_COMPLETE"
      [] state = "l1Check" -> "L1_EVALUATION_COMPLETE"
      [] state = "l2Check" -> "L2_EVALUATION_COMPLETE"
      [] state = "l3Check" -> "L3_EVALUATION_COMPLETE"

L03Events ==
    {"L0_EVALUATION_COMPLETE", "L1_EVALUATION_COMPLETE",
     "L2_EVALUATION_COMPLETE", "L3_EVALUATION_COMPLETE"}

\* guards isL0Pass .. isL3Pass
isLevelPass(result) == result.passed = TRUE

\* A variant in which a failed L2 does not stop the gate.
L03TargetL2Advisory(state, result) ==
    CASE state = "l0Check" -> IF isLevelPass(result) THEN "l1Check" ELSE "failed"
      [] state = "l1Check" -> IF isLevelPass(result) THEN "l2Check" ELSE "failed"
      [] state = "l2Check" -> "l3Check"
      [] state = "l3Check" -> IF isLevelPass(result) THEN "passed" ELSE "failed"

\* The target of LX_EVALUATION_COMPLETE: the guarded transition first, the
\* fallback to failed otherwise.
L03Target(state, result) ==
    CASE state = "l0Check" -> IF isLevelPass(result) THEN "l1Check" ELSE "failed"
      [] state = "l1Check" -> IF isLevelPass(result) THEN "l2Check" ELSE "failed"
      [] state = "l2Check" -> IF isLevelPass(result) THEN "l3Check" ELSE "failed"
      [] state = "l3Check" -> IF isLevelPass(result) THEN "passed" ELSE "failed"

\* output of l0l3CheckMachine: every(r => r?.passed === true)
L03Output(ctx) ==
    [result |-> ctx.evaluationResults,
     allPassed |->
        \A i \in DOMAIN L03Levels :
            LET r == ctx.evaluationResults[L03Levels[i]]
            IN  r # None /\ r[1].passed = TRUE]

L03Init ==
    /\ l03State = "l0Check"
    /\ l03Ctx = L03InitialContext
    /\ l03Order = <<>>
    /\ l03Event = [type |-> "xstate.init", passed |-> FALSE]

\* L0_EVALUATION_COMPLETE .. L3_EVALUATION_COMPLETE in the state of its level
L03EvaluationComplete ==
    /\ l03State \in L03Checks
    /\ \E result \in LevelResults :
          /\ l03Ctx' = [l03Ctx EXCEPT
                          !.evaluationResults[L03Level(l03State)] = Some(result)]
          /\ l03State' = L03Target(l03State, result)
          /\ l03Event' = [type |-> L03CompleteEvent(l03State),
                          passed |-> result.passed]
    /\ l03Order' = Append(l03Order, L03Level(l03State))

\* An evaluation-complete event of another level: no handler, nothing changes.
L03EventIgnored ==
    /\ l03State \in L03Checks
    /\ \E type \in L03Events \ {L03CompleteEvent(l03State)}, passed \in BOOLEAN :
          l03Event' = [type |-> type, passed |-> passed]
    /\ UNCHANGED <<l03State, l03Ctx, l03Order>>

-----------------------------------------------------------------------------
(* sp2DivisionMachine *)

SP2Final == {"aiLedExit", "humanLedExit"}

TaskCharacteristics ==
    {"initialDraft", "styleUnification", "gapDetection", "designDecision",
     "domainSpecific", "unknown"}
DivisionResults == {"aiLed", "humanLed"}
PromptTechniques ==
    {"zeroShot", "chainOfThought", "treeOfThoughts", "react", "selfConsistency"}

\* createSP2Context("")
SP2InitialContext ==
    [taskDescription |-> "",
     taskCharacteristic |-> None,
     isAiStrength |-> None,
     divisionResult |-> None,
     promptTechnique |-> None]

\* A variant that sends only design decisions to the human.
isNotAiStrengthDesignOnly(characteristic) == characteristic = "designDecision"

isNotAiStrength(characteristic) ==
    characteristic = "designDecision" \/ characteristic = "domainSpecific"

\* output of sp2DivisionMachine
SP2Output(ctx) ==
    [result |-> IF ctx.divisionResult = None THEN "humanLed"
                ELSE ctx.divisionResult[1],
     promptTechnique |-> IF ctx.divisionResult = Some("aiLed")
                         THEN ctx.promptTechnique ELSE None,
     taskCharacteristic |-> IF ctx.taskCharacteristic = None THEN "unknown"
                            ELSE ctx.taskCharacteristic[1]]

\* An event as the history keeps it: its type and its payload.
SEv(type, value) == [type |-> type, value |-> value]

SP2Init ==
    /\ sp2State = "analyzingTask"
    /\ sp2Ctx = SP2InitialContext
    /\ sp2Path = <<"analyzingTask">>
    /\ sp2Event = SEv("xstate.init", "")

SP2Goto(to) ==
    /\ sp2State' = to
    /\ sp2Path' = Append(sp2Path, to)

\* analyzingTask.on.TASK_ANALYZED.  The actions write the fields of the
\* context object before the target state is entered.
SP2TaskAnalyzed ==
    /\ sp2State = "analyzingTask"
    /\ \E characteristic \in TaskCharacteristics, strength \in BOOLEAN :
          /\ sp2Event' = SEv("TASK_ANALYZED", characteristic)
          /\ IF isNotAiStrength(characteristic)
             THEN /\ sp2Ctx' = [sp2Ctx EXCEPT
                                  !.taskCharacteristic = Some(characteristic),
                                  !.isAiStrength = Some(strength),
                                  !.divisionResult = Some("humanLed")]
                  /\ SP2Goto("humanLedExit")
             ELSE /\ sp2Ctx' = [sp2Ctx EXCEPT
                                  !.taskCharacteristic = Some(characteristic),
                                  !.isAiStrength = Some(strength)]
                  /\ SP2Goto("decidingDivision")

\* decidingDivision.on.DECIDE_DIVISION
SP2DecideDivision ==
    /\ sp2State = "decidingDivision"
    /\ \E result \in DivisionResults :
          /\ sp2Event' = SEv("DECIDE_DIVISION", result)
          /\ sp2Ctx' = [sp2Ctx EXCEPT !.divisionResult = Some(result)]
          /\ SP2Goto(IF result = "humanLed" THEN "humanLedExit"
                     ELSE "selectingPrompt")

\* selectingPrompt.on.SELECT_PROMPT
SP2SelectPrompt ==
    /\ sp2State = "selectingPrompt"
    /\ \E technique \in PromptTechniques :
          /\ sp2Event' = SEv("SELECT_PROMPT", technique)
          /\ sp2Ctx' = [sp2Ctx EXCEPT !.promptTechnique = Some(technique)]
    /\ SP2Goto("aiLedExit")

\* The event each state handles.
SP2Handler(state) ==
    CASE state = "analyzingTask" -> "TASK_ANALYZED"
      [] state = "decidingDivision" -> "DECIDE_DIVISION"
      [] state = "selectingPrompt" -> "SELECT_PROMPT"

\* What an event of each type carries.
SP2Payloads(type) ==
    CASE type = "ANALYZE_TASK" -> {""}
      [] type = "TASK_ANALYZED" -> {"initialDraft", "designDecision"}
      [] type = "DECIDE_DIVISION" -> DivisionResults
      [] type = "SELECT_PROMPT" -> {"zeroShot"}

SP2Events == {"ANALYZE_TASK", "TASK_ANALYZED", "DECIDE_DIVISION", "SELECT_PROMPT"}

\* An event the current state has no handler for: nothing changes.
SP2EventIgnored ==
    /\ sp2State \notin SP2Final
    /\ \E type \in SP2Events \ {SP2Handler(sp2State)} :
          \E value \in SP2Payloads(type) : sp2Event' = SEv(type, value)
    /\ UNCHANGED <<sp2State, sp2Ctx, sp2Path>>

-----------------------------------------------------------------------------
(* Specifications *)

\* The values of the variables of a machine that a specification does not run.
LCOff ==
    /\ lcState = "off"
    /\ lcCtx = <<>>
    /\ lcTrace = <<>>
    /\ lcPrev = "none"
VLOff ==
    /\ vlState = "off"
    /\ vlCtx = <<>>
    /\ vlTimer = [pending |-> FALSE, deadline |-> 0]
    /\ vlRunStart = 0
    /\ vlFiredAt = {}
    /\ vlArmed = 0
    /\ vlLog = <<>>
    /\ vlEntries = <<>>
    /\ vlCalls = NoCalls
    /\ vlEvent = Ev("none", FALSE)
MFOff ==
    /\ mfState = "off"
    /\ mfCtx = <<>>
    /\ mfReviewed = FALSE
    /\ mfEvent = MEv("none", FALSE)
    /\ mfGatePassed = FALSE
    /\ mfSp3Output = None
RFOff ==
    /\ rfState = "off"
    /\ rfCtx = <<>>
    /\ rfInjected = {}
    /\ rfEsTrace = <<>>
    /\ rfHandled = <<>>
    /\ rfEvent = "none"
    /\ rfRecordEntries = 0
    /\ rfReentryParity = 0

L03Off ==
    /\ l03State = "off"
    /\ l03Ctx = <<>>
    /\ l03Order = <<>>
    /\ l03Event = [type |-> "none", passed |-> FALSE]

SP2Off ==
    /\ sp2State = "off"
    /\ sp2Ctx = <<>>
    /\ sp2Path = <<>>
    /\ sp2Event = SEv("none", "")

SubOff == L03Off /\ SP2Off

Init == MFInit /\ LCOff /\ VLOff /\ RFOff /\ now = 0 /\ SubOff

Next ==
    \/ BrightLinesPass /\ UNCHANGED <<now, lcVars, vlVars, rfVars, subVars>>
    \/ BrightLinesFail /\ UNCHANGED <<now, lcVars, vlVars, rfVars, subVars>>
    \/ BrightLinesFixed /\ UNCHANGED <<now, lcVars, vlVars, rfVars, subVars>>
    \/ Sp1Done /\ UNCHANGED <<now, lcVars, vlVars, rfVars, subVars>>
    \/ AdjustmentDone /\ UNCHANGED <<now, lcVars, vlVars, rfVars, subVars>>
    \/ Sp2Done /\ UNCHANGED <<now, lcVars, vlVars, rfVars, subVars>>
    \/ ExecuteHuman /\ UNCHANGED <<now, lcVars, vlVars, rfVars, subVars>>
    \/ ExecuteAi /\ UNCHANGED <<now, lcVars, vlVars, rfVars, subVars>>
    \/ HumanReviewDone /\ UNCHANGED <<now, lcVars, vlVars, rfVars, subVars>>
    \/ Sp3Done /\ InvokeRf /\ UNCHANGED <<now, lcVars, vlVars, subVars>>
    \/ RfDone /\ UNCHANGED <<now, lcVars, vlVars, rfVars, subVars>>
    \/ MFEventIgnored /\ UNCHANGED <<now, lcVars, vlVars, rfVars, subVars>>

Spec == Init /\ [][Next]_vars

InitLC == LCInit /\ VLOff /\ MFOff /\ RFOff /\ SubOff

NextLC ==
    \/ LCErrorStateRecorded /\ UNCHANGED <<vlVars, mfVars, rfVars, subVars>>
    \/ LCTick /\ UNCHANGED <<vlVars, mfVars, rfVars, subVars>>
    \/ LCRestart /\ UNCHANGED <<vlVars, mfVars, rfVars, subVars>>

SpecLC == InitLC /\ [][NextLC]_vars

InitVL == VLInit /\ LCOff /\ MFOff /\ RFOff /\ SubOff

NextVL ==
    \/ VLCheckPassed /\ UNCHANGED <<lcVars, mfVars, rfVars, subVars>>
    \/ VLCheckFailed /\ UNCHANGED <<lcVars, mfVars, rfVars, subVars>>
    \/ VLErrorStateRecorded /\ UNCHANGED <<lcVars, mfVars, rfVars, subVars>>
    \/ VLFixIssued /\ UNCHANGED <<lcVars, mfVars, rfVars, subVars>>
    \/ VLEventIgnored /\ UNCHANGED <<lcVars, mfVars, rfVars, subVars>>
    \/ VLTick /\ UNCHANGED <<lcVars, mfVars, rfVars, subVars>>

SpecVL == InitVL /\ [][NextVL]_vars

\* The verification loop driven by well-formed events and by failing
\* check-complete events that carry no error.
NextVLPartial ==
    \/ VLCheckPassed /\ UNCHANGED <<lcVars, mfVars, rfVars, subVars>>
    \/ VLCheckFailed /\ UNCHANGED <<lcVars, mfVars, rfVars, subVars>>
    \/ VLCheckFailedNoPayload /\ UNCHANGED <<lcVars, mfVars, rfVars, subVars>>
    \/ VLJudged /\ UNCHANGED <<lcVars, mfVars, rfVars, subVars>>
    \/ VLGuardThrows /\ UNCHANGED <<lcVars, mfVars, rfVars, subVars>>
    \/ VLFixIssued /\ UNCHANGED <<lcVars, mfVars, rfVars, subVars>>
    \/ VLTick /\ UNCHANGED <<lcVars, mfVars, rfVars, subVars>>

SpecVLPartial == InitVL /\ [][NextVLPartial]_vars

\* Delivery of the event the loop is waiting for: a check-complete event in a
\* stage, ERROR_STATE_RECORDED in recordErrorState, FIX_ISSUED in issueFix.
\* Nothing obliges the clock to advance.
VLCheckDelivered ==
    (VLCheckPassed \/ VLCheckFailed \/ VLCheckFailedNoPayload)
        /\ UNCHANGED <<lcVars, mfVars, rfVars, subVars>>

VLRecordDelivered ==
    (VLJudged \/ VLGuardThrows)
        /\ UNCHANGED <<lcVars, mfVars, rfVars, subVars>>

VLFixDelivered ==
    VLFixIssued /\ UNCHANGED <<lcVars, mfVars, rfVars, subVars>>

FairVL ==
    /\ WF_vars(VLCheckDelivered)
    /\ WF_vars(VLRecordDelivered)
    /\ WF_vars(VLFixDelivered)

SpecVLPartialLive == InitVL /\ [][NextVLPartial]_vars /\ FairVL

InitRF == RFInit /\ LCOff /\ VLOff /\ MFOff /\ now = 0 /\ SubOff

NextRF ==
    \/ RFProblemVerbalized /\ UNCHANGED <<now, lcVars, vlVars, mfVars, subVars>>
    \/ RFCauseAnalyzed /\ UNCHANGED <<now, lcVars, vlVars, mfVars, subVars>>
    \/ RFEssenceIdentified /\ UNCHANGED <<now, lcVars, vlVars, mfVars, subVars>>
    \/ RFReselectApproach /\ UNCHANGED <<now, lcVars, vlVars, mfVars, subVars>>
    \/ RFEscalationDecided /\ UNCHANGED <<now, lcVars, vlVars, mfVars, subVars>>
    \/ RFHumanFixComplete /\ UNCHANGED <<now, lcVars, vlVars, mfVars, subVars>>
    \/ RFAiExplanationReceived /\ UNCHANGED <<now, lcVars, vlVars, mfVars, subVars>>
    \/ RFRedecomposeComplete /\ UNCHANGED <<now, lcVars, vlVars, mfVars, subVars>>
    \/ RFContextResetComplete /\ UNCHANGED <<now, lcVars, vlVars, mfVars, subVars>>
    \/ RFTeamConsulted /\ UNCHANGED <<now, lcVars, vlVars, mfVars, subVars>>
    \/ RFClaudeMdRecorded /\ UNCHANGED <<now, lcVars, vlVars, mfVars, subVars>>
    \/ RFWorkaroundDocumented /\ UNCHANGED <<now, lcVars, vlVars, mfVars, subVars>>
    \/ RFTeamShared /\ UNCHANGED <<now, lcVars, vlVars, mfVars, subVars>>
    \/ RFEventIgnored /\ UNCHANGED <<now, lcVars, vlVars, mfVars, subVars>>

SpecRF == InitRF /\ [][NextRF]_vars

\* Every awaited event is eventually delivered and a macrostep that has
\* re-entered approachSelection goes on.
FairRF ==
    /\ WF_vars(RFProblemVerbalized /\ UNCHANGED <<now, lcVars, vlVars, mfVars, subVars>>)
    /\ WF_vars(RFCauseAnalyzed /\ UNCHANGED <<now, lcVars, vlVars, mfVars, subVars>>)
    /\ WF_vars(RFEssenceIdentified /\ UNCHANGED <<now, lcVars, vlVars, mfVars, subVars>>)
    /\ WF_vars(RFReselectApproach /\ UNCHANGED <<now, lcVars, vlVars, mfVars, subVars>>)
    /\ WF_vars(RFEscalationDecided /\ UNCHANGED <<now, lcVars, vlVars, mfVars, subVars>>)
    /\ WF_vars(RFHumanFixComplete /\ UNCHANGED <<now, lcVars, vlVars, mfVars, subVars>>)
    /\ WF_vars(RFAiExplanationReceived /\ UNCHANGED <<now, lcVars, vlVars, mfVars, subVars>>)
    /\ WF_vars(RFRedecomposeComplete /\ UNCHANGED <<now, lcVars, vlVars, mfVars, subVars>>)
    /\ WF_vars(RFContextResetComplete /\ UNCHANGED <<now, lcVars, vlVars, mfVars, subVars>>)
    /\ WF_vars(RFTeamConsulted /\ UNCHANGED <<now, lcVars, vlVars, mfVars, subVars>>)
    /\ WF_vars(RFClaudeMdRecorded /\ UNCHANGED <<now, lcVars, vlVars, mfVars, subVars>>)
    /\ WF_vars(RFWorkaroundDocumented /\ UNCHANGED <<now, lcVars, vlVars, mfVars, subVars>>)
    /\ WF_vars(RFTeamShared /\ UNCHANGED <<now, lcVars, vlVars, mfVars, subVars>>)

SpecRFLive == InitRF /\ [][NextRF]_vars /\ FairRF

InitL03 ==
    L03Init /\ LCOff /\ VLOff /\ MFOff /\ RFOff /\ SP2Off /\ now = 0

NextL03 ==
    \/ L03EvaluationComplete
          /\ UNCHANGED <<now, lcVars, vlVars, mfVars, rfVars, sp2Vars>>
    \/ L03EventIgnored
          /\ UNCHANGED <<now, lcVars, vlVars, mfVars, rfVars, sp2Vars>>

SpecL03 == InitL03 /\ [][NextL03]_vars

InitSP2 ==
    SP2Init /\ LCOff /\ VLOff /\ MFOff /\ RFOff /\ L03Off /\ now = 0

NextSP2 ==
    \/ SP2TaskAnalyzed
          /\ UNCHANGED <<now, lcVars, vlVars, mfVars, rfVars, l03Vars>>
    \/ SP2DecideDivision
          /\ UNCHANGED <<now, lcVars, vlVars, mfVars, rfVars, l03Vars>>
    \/ SP2SelectPrompt
          /\ UNCHANGED <<now, lcVars, vlVars, mfVars, rfVars, l03Vars>>
    \/ SP2EventIgnored
          /\ UNCHANGED <<now, lcVars, vlVars, mfVars, rfVars, l03Vars>>

SpecSP2 == InitSP2 /\ [][NextSP2]_vars

-----------------------------------------------------------------------------
(* Properties of the orchestrator (Spec) *)

\* The output the verification loop has just delivered, as stored by onDone.
Sp3Delivered(o) ==
    /\ mfState = "sp3Verification"
    /\ mfState' # "sp3Verification"
    /\ mfCtx'.sp3Result = Some(o)

\* C1: whenever the verification loop finishes with principleViolation = true
\* and passed = true, the orchestrator's next state is brightLinesCheck, never
\* taskCompleted.
C1_ViolationBeatsPass ==
    [][\A o \in SP3Outputs :
          (Sp3Delivered(o) /\ o.principleViolation /\ o.passed)
              => mfState' = "brightLinesCheck"]_vars

\* C2: whenever the verification loop finishes with principleViolation = true
\* and passed = false (lossCut true or false), the orchestrator goes to
\* brightLinesCheck with hasPrincipleViolation = true, not to recoveryFlow.
C2_ViolationBeatsLossCut ==
    [][\A o \in SP3Outputs :
          (Sp3Delivered(o) /\ o.principleViolation /\ ~o.passed)
              => /\ mfState' = "brightLinesCheck"
                 /\ mfCtx'.hasPrincipleViolation = TRUE]_vars

\* C2 witness: the orchestrator is back in brightLinesCheck after an output
\* with principleViolation, passed = false and lossCut = true.
C2_Witness ==
    /\ mfState = "brightLinesCheck"
    /\ mfCtx.sp3Result # None
    /\ mfCtx.sp3Result[1].principleViolation
    /\ ~mfCtx.sp3Result[1].passed
    /\ mfCtx.sp3Result[1].lossCut
    /\ mfCtx.hasPrincipleViolation
    /\ mfCtx.recoveryResult = None

\* C3: whenever executionResult.isAiGenerated is true and the state is
\* sp3Verification or taskCompleted, a HUMAN_REVIEW_DONE has been processed
\* after the EXECUTE_AI that produced the result (aiExecution never leads to
\* sp3Verification without humanReview), loop-backs included.
C3_AiOutputReviewed ==
    (/\ mfState \in {"sp3Verification", "taskCompleted"}
     /\ mfCtx.executionResult # None
     /\ mfCtx.executionResult[1].isAiGenerated)
        => mfReviewed

\* C3 witness: an AI-generated result reaches taskCompleted after a loop-back
\* to brightLinesCheck, reviewed.
C3_Witness ==
    /\ mfState = "taskCompleted"
    /\ mfCtx.executionResult # None
    /\ mfCtx.executionResult[1].isAiGenerated
    /\ mfCtx.hasPrincipleViolation
    /\ mfReviewed

-----------------------------------------------------------------------------
(* Properties of the stand-alone loss-cut judgment (SpecLC) *)

\* The recurrence rule as the specification words it: some entry at an index
\* below the last has the step and the message of lastError.
RecursEarlier(ctx) ==
    /\ ctx.lastError # None
    /\ \E i \in 1..(Len(ctx.errorHistory) - 1) :
          /\ ctx.errorHistory[i].error.step = ctx.lastError[1].step
          /\ ctx.errorHistory[i].error.message = ctx.lastError[1].message

\* The four-condition rule as the specification words it.
CutRule(ctx, dateNow) ==
    \/ ctx.errorCount >= 3
    \/ dateNow - ctx.startedAt >= 1800000
    \/ (ctx.errorHistory # <<>>
          /\ ctx.errorHistory[Len(ctx.errorHistory)].complexityDelta = "increased")
    \/ RecursEarlier(ctx)

\* C4: for every context with errorCount >= 3, after ERROR_STATE_RECORDED the
\* machine goes check3Times -> lossCutConfirmed with decision cut, whatever
\* startedAt, lastError and errorHistory are; check30Min, checkComplexity and
\* checkRecurrence are never entered.
C4_CountShortCircuits ==
    (lcState # "recordErrorState" /\ lcCtx.errorCount >= 3)
        => /\ lcTrace = <<"check3Times", "lossCutConfirmed">>
           /\ lcState = "lossCutConfirmed"
           /\ lcCtx.lossCutDecision = "cut"

\* C4 witness: a judgment with errorCount >= 3 in which the three later
\* conditions hold as well.
C4_Witness ==
    /\ lcState = "lossCutConfirmed"
    /\ lcCtx.errorCount >= 3
    /\ now - lcCtx.startedAt >= 1800000
    /\ checkGrowingComplexity(lcCtx)
    /\ RecursEarlier(lcCtx)

\* C5: after ERROR_STATE_RECORDED the judgment is in exactly one of
\* lossCutConfirmed (decision cut) and continueFix (decision continue), and
\* the decision is cut iff errorCount >= 3, or now - startedAt >= 1 800 000,
\* or the last record has complexityDelta = increased, or the error recurs.
C5_DecisionIsTheRule ==
    /\ lcState \in {"recordErrorState"} \cup LCFinal
    /\ lcState = "recordErrorState" => lcCtx.lossCutDecision = "none"
    /\ lcState = "lossCutConfirmed" =>
          lcCtx.lossCutDecision = "cut" /\ CutRule(lcCtx, now)
    /\ lcState = "continueFix" =>
          lcCtx.lossCutDecision = "continue" /\ ~CutRule(lcCtx, now)

\* C5 witness: a cut decided by the time rule alone, at exactly 1 800 000 ms.
C5_Witness ==
    /\ lcState = "lossCutConfirmed"
    /\ lcCtx.errorCount = 1
    /\ now - lcCtx.startedAt = 1800000
    /\ ~checkGrowingComplexity(lcCtx)
    /\ ~RecursEarlier(lcCtx)

\* C6: two judgments started from identical LossCutContext values produce the
\* same decision, also when they are evaluated at different wall-clock times.
C6_SameContextSameDecision ==
    (lcState \in LCFinal /\ lcPrev # "none")
        => LCOutput(lcCtx).decision = lcPrev

\* C7: the recurrence condition compares lastError's (step, message) only with
\* the entries below the last one: it is true iff such an entry has the same
\* step and message; a match with the last entry alone, or a null lastError,
\* gives false.  When the chain reaches checkRecurrence it decides by it.
C7_RecurrenceExcludesCurrent ==
    /\ checkRecurringError(lcCtx) <=> RecursEarlier(lcCtx)
    /\ lcCtx.lastError = None => ~checkRecurringError(lcCtx)
    /\ (lcState \in LCFinal /\ lcTrace[Len(lcTrace) - 1] = "checkRecurrence")
          => (lcState = "lossCutConfirmed" <=> RecursEarlier(lcCtx))

\* C7 witness: lastError matches the last entry of the history and no earlier
\* one, and the judgment, having reached checkRecurrence, continues.
C7_Witness ==
    /\ lcState = "continueFix"
    /\ lcCtx.lastError # None
    /\ Len(lcCtx.errorHistory) = 2
    /\ lcCtx.errorHistory[2].error.step = lcCtx.lastError[1].step
    /\ lcCtx.errorHistory[2].error.message = lcCtx.lastError[1].message
    /\ lcCtx.errorHistory[1].error.step = lcCtx.lastError[1].step
    /\ lcCtx.errorHistory[1].error.message # lcCtx.lastError[1].message
    /\ lcTrace[Len(lcTrace) - 1] = "checkRecurrence"

-----------------------------------------------------------------------------
(* Properties of the stand-alone verification loop (SpecVL) *)

\* The failures recorded so far are all of one stage, with pairwise distinct
\* messages.
SameStageDistinctMessages(h) ==
    \A i, j \in DOMAIN h :
        /\ h[i].error.step = h[j].error.step
        /\ i # j => h[i].error.message # h[j].error.message

C9_TimerAtDeadline ==
    /\ vlState \in VLStages => now - vlRunStart < 1800000
    /\ \A t \in vlFiredAt : t - vlRunStart = 1800000
    /\ (now - vlRunStart >= 1800000 /\ vlState \notin VLFinal)
          => (vlState = VLRecord /\ vlFiredAt # {})

\* C9 witness: the timer has moved the loop into lossCutJudgment at exactly
\* 1 800 000 ms, no check having failed.
C9_Witness ==
    /\ vlState = VLRecord
    /\ now - vlRunStart = 1800000
    /\ vlFiredAt = {now}
    /\ vlCtx.errorCount = 0
    /\ vlLog = <<>>

\* C10: the 30-minute timer is armed once, when the run starts; no stage
\* transition, judgment or FIX_ISSUED re-entry into typecheck re-arms, resets
\* or cancels it before the run reaches a final state.
C10_SingleDeadline ==
    /\ vlArmed = 1
    /\ vlTimer.deadline = vlRunStart + 1800000
    /\ vlTimer.pending <=> (vlState \notin VLFinal /\ vlFiredAt = {})

\* C10 witness: the timer fires at the deadline set at the start, in a stage
\* entered again after a fix.
C10_Witness ==
    /\ vlState = VLRecord
    /\ vlFiredAt = {vlRunStart + 1800000}
    /\ Len(vlLog) >= 1
    /\ vlCtx.lossCutDecision = "none"
    /\ vlArmed = 1

\* C11: in every run that ends in verificationPassed the stages entered since
\* typecheck was last entered are typecheck, lint, test in that order; a
\* check-complete event of a stage other than the active state leaves the state
\* and the context unchanged; verificationPassed is entered only from test, on
\* a TEST_COMPLETE whose result passed.
C11_StageOrder ==
    /\ [](vlState = "verificationPassed"
              => vlEntries = <<"typecheck", "lint", "test">>)
    /\ [][(/\ vlEvent'.type \in CheckEvents
            /\ vlState \notin VLFinal
            /\ vlEvent'.type # (IF vlState \in VLStages
                                THEN CompleteEvent(vlState) ELSE "none"))
              => (vlState' = vlState /\ vlCtx' = vlCtx)]_vars
    /\ [][(vlState # "verificationPassed" /\ vlState' = "verificationPassed")
              => (vlState = "test" /\ vlEvent' = Ev("TEST_COMPLETE", TRUE))]_vars

\* C11 witness: a run passes in the order typecheck, lint, test after two
\* failures and two fixes.
C11_Witness ==
    /\ vlState = "verificationPassed"
    /\ vlCtx.errorCount = 2
    /\ vlEntries = <<"typecheck", "lint", "test">>
    /\ vlEvent = Ev("TEST_COMPLETE", TRUE)

\* C12: the output of the loop matches its terminal state: in
\* verificationPassed passed = true and lossCut = false; in verificationFailed
\* passed = false, lossCut = true and lastError / errorHistory are those of the
\* context; passed and lossCut are never both true or both false.
C12_OutputMatchesTerminal ==
    vlState \in VLFinal =>
        LET out == VLOutput(vlCtx)
        IN  /\ out.passed # out.lossCut
            /\ vlState = "verificationPassed" => (out.passed /\ ~out.lossCut)
            /\ vlState = "verificationFailed" =>
                  /\ ~out.passed
                  /\ out.lossCut
                  /\ out.lastError = vlCtx.lastError
                  /\ out.errorHistory = vlCtx.errorHistory

\* C12 witness: the loop was abandoned by the timer after one failure, the
\* count rule not holding.
C12_Witness ==
    /\ vlState = "verificationFailed"
    /\ vlFiredAt # {}
    /\ vlCtx.errorCount = 1
    /\ VLOutput(vlCtx).lossCut
    /\ VLOutput(vlCtx).lastError # None

\* A monitor result that reports a violation.
ReportsViolation(result) == result # None /\ result[1].passed = FALSE

\* C13: if either monitor (collaboration-principle check or AI-behaviour-
\* principle check) reported a violation on a stage entry of the run, the
\* terminal output has principleViolation = true, in verificationPassed and in
\* verificationFailed.  A result held by the context in the terminal state was
\* reported on a stage entry of the run, so the output must then carry the flag.
C13_ViolationLatched ==
    (/\ vlState \in VLFinal
     /\ \/ ReportsViolation(vlCtx.collaborationCheckResult)
        \/ ReportsViolation(vlCtx.aiPrincipleCheckResult))
        => VLOutput(vlCtx).principleViolation = TRUE

-----------------------------------------------------------------------------
(* Properties of the recovery flow and the escalation judgment (SpecRF) *)

\* The tiers of the escalation rule as the specification words them.
Tier1(a) == a.hasSecurityIssue \/ a.hasProductionImpact \/ a.hasDataLossRisk
Tier2(a) == a.retreatCount >= 3 \/ a.isUnknownCause \/ a.isOutOfSkillScope

ESWaiting ==
    {"escalationJudgment.executeImmediate", "escalationJudgment.consider30Min"}

\* C14: for every analysis in which hasSecurityIssue, hasProductionImpact or
\* hasDataLossRisk is true, the escalation judgment goes checkImmediate ->
\* executeImmediate and ends in escalationConfirmed with escalationResult =
\* escalate; check30Min and consider30Min are never entered, also when
\* retreatCount >= 3, isUnknownCause or isOutOfSkillScope hold.
C14_ImmediateTierFirst ==
    (rfCtx.analysisResult # None /\ Tier1(rfCtx.analysisResult[1])) =>
        \/ /\ rfState = "escalationJudgment.executeImmediate"
           /\ rfEsTrace = <<"checkImmediate", "executeImmediate">>
        \/ /\ rfState \notin ESWaiting
           /\ rfEsTrace = <<"checkImmediate", "executeImmediate",
                            "escalationConfirmed">>
           /\ rfCtx.escalationResult = Some("escalate")

\* C14 witness: the judgment has ended in escalationConfirmed for an analysis
\* with a data-loss risk and all three conditions of the delayed tier.
C14_Witness ==
    /\ rfState = "consultTeam"
    /\ rfCtx.analysisResult # None
    /\ rfCtx.analysisResult[1].hasDataLossRisk
    /\ ~rfCtx.analysisResult[1].hasSecurityIssue
    /\ rfCtx.analysisResult[1].retreatCount >= 3
    /\ rfCtx.analysisResult[1].isUnknownCause
    /\ rfCtx.analysisResult[1].isOutOfSkillScope
    /\ rfCtx.escalationResult = Some("escalate")

\* C15: with no tier-1 flag set, the judgment ends in selfResolution
\* (escalationResult = self) iff retreatCount < 3 and isUnknownCause and
\* isOutOfSkillScope are false; otherwise it waits in consider30Min and reaches
\* escalationConfirmed (escalate) only by an ESCALATION_DECIDED event;
\* escalationConfirmed and selfResolution are the only states a judgment ends in.
C15_ResultIsTheRule ==
    /\ (rfEsTrace # <<>> /\ rfState \notin ESWaiting)
          => Last(rfEsTrace) \in ESFinal
    /\ (rfEsTrace # <<>> /\ ~Tier1(rfCtx.analysisResult[1])) =>
          IF ~Tier2(rfCtx.analysisResult[1])
          THEN /\ rfEsTrace = <<"checkImmediate", "check30Min", "selfResolution">>
               /\ rfCtx.escalationResult = Some("self")
               /\ rfState \notin ESWaiting
          ELSE \/ /\ rfState = "escalationJudgment.consider30Min"
                  /\ rfEsTrace = <<"checkImmediate", "check30Min",
                                   "consider30Min">>
                  /\ rfCtx.escalationResult # Some("escalate")
               \/ /\ rfState \notin ESWaiting
                  /\ rfEsTrace = <<"checkImmediate", "check30Min",
                                   "consider30Min", "escalationConfirmed">>
                  /\ rfCtx.escalationResult = Some("escalate")
                  /\ \E k \in DOMAIN rfHandled :
                        rfHandled[k] = "ESCALATION_DECIDED"

\* C15 witness: a judgment confirmed after waiting in consider30Min, for an
\* analysis whose only condition is retreatCount = 3.
C15_Witness ==
    /\ rfState = "consultTeam"
    /\ ~Tier1(rfCtx.analysisResult[1])
    /\ rfCtx.analysisResult[1].retreatCount = 3
    /\ ~rfCtx.analysisResult[1].isUnknownCause
    /\ ~rfCtx.analysisResult[1].isOutOfSkillScope
    /\ rfCtx.escalationResult = Some("escalate")

RFClosing == {"documentWorkaround", "shareWithTeam", "recoveryComplete"}

\* C16: on every path that reaches recoveryComplete (approach A, B, C, D via
\* the escalation judgment, or the direct tier-1 escalation) recordToClaudeMd
\* is entered exactly once before completion; no run reaches recoveryComplete
\* without having entered it.
C16_RecordExactlyOnce ==
    /\ rfRecordEntries <= 1
    /\ rfState \in RFClosing => rfRecordEntries = 1
    /\ rfState = "recoveryComplete" =>
          \E k \in DOMAIN rfHandled : rfHandled[k] = "CLAUDE_MD_RECORDED"

\* C16 witness: a run completed through the fallback D, the judgment having
\* waited in consider30Min.
C16_Witness ==
    /\ rfState = "recoveryComplete"
    /\ rfRecordEntries = 1
    /\ ~Tier1(rfCtx.analysisResult[1])
    /\ rfCtx.escalationResult = Some("escalate")
    /\ \E k \in DOMAIN rfHandled : rfHandled[k] = "TEAM_CONSULTED"

\* C17: documentWorkaround is entered only directly after recordToClaudeMd, on
\* CLAUDE_MD_RECORDED, never before it; shareWithTeam is entered only from
\* documentWorkaround and only if shouldShareWithTeam is true at that moment,
\* otherwise the flow goes from documentWorkaround straight to recoveryComplete.
C17_ClosingOrder ==
    /\ [](rfState = "documentWorkaround" => rfRecordEntries >= 1)
    /\ [][(rfState # "documentWorkaround" /\ rfState' = "documentWorkaround")
              => (/\ rfState = "recordToClaudeMd"
                  /\ rfEvent' = "CLAUDE_MD_RECORDED")]_vars
    /\ [][(rfState # "shareWithTeam" /\ rfState' = "shareWithTeam")
              => (/\ rfState = "documentWorkaround"
                  /\ rfCtx.shouldShareWithTeam = TRUE)]_vars
    /\ [][(rfState = "documentWorkaround" /\ rfState' # "documentWorkaround")
              => rfState' = (IF rfCtx.shouldShareWithTeam = TRUE
                             THEN "shareWithTeam" ELSE "recoveryComplete")]_vars

\* C17 witness: shareWithTeam has been entered.
C17_Witness ==
    /\ rfState = "shareWithTeam"
    /\ rfCtx.shouldShareWithTeam = TRUE
    /\ rfEvent = "WORKAROUND_DOCUMENTED"

RFAnalysing ==
    {"problemAnalysis.verbalizeProblem", "problemAnalysis.analyzeCause",
     "problemAnalysis.identifyEssence"}

\* C18: whenever escalationCheck, escalationJudgment, approachSelection or a
\* later state is active, analysisResult is non-null and the first three events
\* that caused a transition were PROBLEM_VERBALIZED, CAUSE_ANALYZED,
\* ESSENCE_IDENTIFIED in that order; an event sent out of order during the
\* analysis leaves state and context unchanged.
C18_AnalysisFirst ==
    /\ [](rfState \notin RFAnalysing =>
            /\ rfCtx.analysisResult # None
            /\ Len(rfHandled) >= 3
            /\ SubSeq(rfHandled, 1, 3) = <<"PROBLEM_VERBALIZED",
                                            "CAUSE_ANALYZED",
                                            "ESSENCE_IDENTIFIED">>)
    /\ [](rfState \in RFAnalysing => rfCtx.analysisResult = None)
    /\ [][(rfState \in RFAnalysing /\ rfEvent' # RFHandler(rfState))
              => (rfState' = rfState /\ rfCtx' = rfCtx)]_vars

\* C18 witness: approachSelection has been passed (approach B) after exactly
\* the three analysis events.
C18_Witness ==
    /\ rfState = "redecompose"
    /\ rfCtx.analysisResult # None
    /\ rfHandled = <<"PROBLEM_VERBALIZED", "CAUSE_ANALYZED",
                     "ESSENCE_IDENTIFIED">>

\* C19: given that every awaited event is eventually delivered, every run of
\* the recovery flow eventually reaches recoveryComplete; the cycle
\* approachSelection -> escalationJudgment (fallback D) -> selfResolution ->
\* approachSelection does not repeat forever.
C19_Terminates == <>(rfState = "recoveryComplete")

-----------------------------------------------------------------------------
(* Properties of the orchestrator, continued (Spec) *)

\* C20: the orchestrator ends in taskCompleted or recoveryExit only, and its
\* output agrees with the final state: completionType = recoveryExit with
\* recoveryResult non-null iff the state is recoveryExit, completionType =
\* taskCompleted with recoveryResult null iff it is taskCompleted, loop-backs
\* to brightLinesCheck included.
C20_OutputMatchesFinal ==
    /\ MFFinal = {"taskCompleted", "recoveryExit"}
    /\ mfState \in MFFinal =>
          /\ MFOutput(mfCtx).completionType = mfState
          /\ mfState = "recoveryExit" <=> MFOutput(mfCtx).recoveryResult # None
    /\ mfState \notin MFFinal => mfCtx.recoveryResult = None

\* C20 witness: recoveryExit reached by a run that looped back to
\* brightLinesCheck after a principle violation, the failing output carrying
\* no lastError.
C20_Witness ==
    /\ mfState = "recoveryExit"
    /\ mfCtx.hasPrincipleViolation
    /\ mfCtx.lastError = None
    /\ MFOutput(mfCtx).completionType = "recoveryExit"

\* The two states of the bright-line gate.
MFGate == {"brightLinesCheck", "brightLinesFix"}

\* C21: the orchestrator is in a state from sp1Check onwards only after a
\* BRIGHT_LINES_PASS was processed since brightLinesCheck was last entered;
\* brightLinesCheck is left only by BRIGHT_LINES_PASS (to sp1Check) or by
\* BRIGHT_LINES_FAIL (to brightLinesFix); brightLinesFix is left only by
\* BRIGHT_LINES_FIXED, to brightLinesCheck; and
\* brightLinesResult.hasViolation is true exactly while in brightLinesFix.
C21_BrightLineGate ==
    /\ [](mfState \notin MFGate => mfGatePassed)
    /\ [](mfCtx.brightLinesResult.hasViolation <=> mfState = "brightLinesFix")
    /\ [][(mfState = "brightLinesCheck" /\ mfState' # mfState) =>
             \/ mfEvent'.type = "BRIGHT_LINES_PASS" /\ mfState' = "sp1Check"
             \/ mfEvent'.type = "BRIGHT_LINES_FAIL" /\ mfState' = "brightLinesFix"]_vars
    /\ [][(mfState = "brightLinesFix" /\ mfState' # mfState) =>
             mfEvent'.type = "BRIGHT_LINES_FIXED" /\ mfState' = "brightLinesCheck"]_vars
    /\ [][mfGatePassed' /\ ~mfGatePassed =>
             mfState = "brightLinesCheck" /\ mfEvent'.type = "BRIGHT_LINES_PASS"]_vars

\* A reported violation has just been fixed: the flow is back in
\* brightLinesCheck, the violation flag is cleared and the gate is not passed.
C21_Witness ==
    /\ mfState = "brightLinesCheck"
    /\ mfEvent.type = "BRIGHT_LINES_FIXED"
    /\ ~mfGatePassed
    /\ ~mfCtx.brightLinesResult.hasViolation

\* The transition of a step enters the given orchestrator state.
MFEnters(state) == mfState' = state /\ mfState # state

\* C22: sp2Division is entered only from sp1Check, on the done event of an
\* SP-1 run whose output has allPassed = true; a done event with
\* allPassed = false leads from sp1Check to taskAdjustment; taskAdjustment is
\* left only by ADJUSTMENT_DONE, to sp1Check, with adjustmentCount incremented
\* by exactly one; the execution states are entered only from sp2Division
\* (humanReview only from aiExecution), and sp3Verification only from
\* humanExecution or humanReview, on the event of the execution step.
C22_SubProcessOrder ==
    /\ [][MFEnters("sp2Division") =>
             /\ mfState = "sp1Check"
             /\ mfEvent' = MEv("xstate.done.actor.sp1Machine", TRUE)]_vars
    /\ [][(mfState = "sp1Check"
           /\ mfEvent' = MEv("xstate.done.actor.sp1Machine", FALSE)) =>
             mfState' = "taskAdjustment"]_vars
    /\ [][(mfState = "taskAdjustment" /\ mfState' # mfState) =>
             /\ mfEvent'.type = "ADJUSTMENT_DONE"
             /\ mfState' = "sp1Check"
             /\ mfCtx'.adjustmentCount = mfCtx.adjustmentCount + 1]_vars
    /\ [][(MFEnters("humanExecution") \/ MFEnters("aiExecution")) =>
             /\ mfState = "sp2Division"
             /\ mfEvent'.type = "xstate.done.actor.sp2Machine"]_vars
    /\ [][MFEnters("humanReview") =>
             mfState = "aiExecution" /\ mfEvent'.type = "EXECUTE_AI"]_vars
    /\ [][MFEnters("sp3Verification") =>
             \/ mfState = "humanExecution" /\ mfEvent'.type = "EXECUTE_HUMAN"
             \/ mfState = "humanReview" /\ mfEvent'.type = "HUMAN_REVIEW_DONE"]_vars
    /\ [](mfState = "sp3Verification" =>
             /\ mfCtx.sp1Result # None /\ mfCtx.sp1Result[1].result = "allPass"
             /\ mfCtx.sp2Result # None
             /\ mfCtx.executionResult # None)

\* The verification loop is running after a failed SP-1 run, one adjustment,
\* a passing SP-1 run, the division and an AI-led execution with its review.
C22_Witness ==
    /\ mfState = "sp3Verification"
    /\ mfCtx.adjustmentCount = 1
    /\ mfCtx.sp1Result # None /\ mfCtx.sp1Result[1].result = "allPass"
    /\ mfCtx.sp2Result # None /\ mfCtx.sp2Result[1].result = "aiLed"
    /\ mfEvent.type = "HUMAN_REVIEW_DONE"

\* C23: taskCompleted is entered only from sp3Verification, on a done event
\* whose output has passed = true; recoveryFlow is entered only from
\* sp3Verification, on an output with passed = false and
\* principleViolation = false; recoveryExit is entered only from
\* recoveryFlow, on the done event of the recovery flow; so sp3Result.passed
\* is true in taskCompleted and false in recoveryFlow and recoveryExit.
C23_TerminalReflectsVerification ==
    /\ [][MFEnters("taskCompleted") =>
             /\ mfState = "sp3Verification"
             /\ mfEvent' = MEv("xstate.done.actor.sp3Machine", TRUE)
             /\ mfCtx'.sp3Result[1].passed = TRUE]_vars
    /\ [][MFEnters("recoveryFlow") =>
             /\ mfState = "sp3Verification"
             /\ mfEvent' = MEv("xstate.done.actor.sp3Machine", FALSE)
             /\ mfCtx'.sp3Result[1].passed = FALSE
             /\ mfCtx'.sp3Result[1].principleViolation = FALSE]_vars
    /\ [][MFEnters("recoveryExit") =>
             /\ mfState = "recoveryFlow"
             /\ mfEvent'.type = "xstate.done.actor.rfMachine"]_vars
    /\ [](mfState = "taskCompleted" =>
             mfCtx.sp3Result # None /\ mfCtx.sp3Result[1].passed = TRUE)
    /\ [](mfState \in {"recoveryFlow", "recoveryExit"} =>
             /\ mfCtx.sp3Result # None
             /\ mfCtx.sp3Result[1].passed = FALSE
             /\ mfCtx.sp3Result[1].principleViolation = FALSE)

\* The task completed on the AI-led path, after an earlier verification run
\* had sent the flow back to the bright-line check.
C23_Witness ==
    /\ mfState = "taskCompleted"
    /\ mfCtx.sp3Result[1].passed = TRUE
    /\ mfCtx.sp2Result[1].result = "aiLed"
    /\ mfCtx.hasPrincipleViolation

\* C24: while the orchestrator runs the recovery flow it invoked, the
\* lastError and errorHistory of the recovery flow's context, which no
\* transition of the recovery flow assigns, are those of the output of the
\* verification loop that was abandoned.
C24_FailureContextReachesRF ==
    mfState = "recoveryFlow" =>
        /\ rfState # "off"
        /\ rfCtx.lastError = mfCtx.sp3Result[1].lastError
        /\ rfCtx.errorHistory = mfCtx.sp3Result[1].errorHistory

\* C25: no state of the verification loop has a null lastError together with
\* errorCount > 0, and no errorHistory record has an undefined error (a
\* failing check-complete event without error payload changes nothing).
C25_FailLoud ==
    /\ (vlCtx.lastError = None => vlCtx.errorCount = 0)
    /\ \A k \in DOMAIN vlCtx.errorHistory :
          vlCtx.errorHistory[k].error # MissingError

\* C26: in the verification loop lossCutDecision is none whenever the loop is
\* in typecheck, lint or test; it changes only when ERROR_STATE_RECORDED is
\* processed in recordErrorState (to cut or continue) or when FIX_ISSUED is
\* processed (to none); every judgment pass leaves it cut or continue, and
\* every FIX_ISSUED processed in issueFix leaves it none.
C26_DecisionLifeCycle ==
    /\ [](vlState \in VLStages => vlCtx.lossCutDecision = "none")
    /\ [][vlCtx'.lossCutDecision # vlCtx.lossCutDecision =>
             \/ /\ vlState = VLRecord
                /\ vlEvent'.type = "ERROR_STATE_RECORDED"
                /\ vlCtx'.lossCutDecision \in {"cut", "continue"}
             \/ /\ vlState = "issueFix"
                /\ vlEvent'.type = "FIX_ISSUED"
                /\ vlCtx'.lossCutDecision = "none"]_vars
    /\ [][(vlState = VLRecord /\ vlEvent'.type = "ERROR_STATE_RECORDED") =>
             /\ vlCtx'.lossCutDecision \in {"cut", "continue"}
             /\ Len(vlLog') = Len(vlLog) + 1
             /\ vlState' = IF vlCtx'.lossCutDecision = "continue"
                           THEN "issueFix" ELSE "verificationFailed"]_vars
    /\ [][(vlState = "issueFix" /\ vlEvent'.type = "FIX_ISSUED") =>
             vlCtx'.lossCutDecision = "none" /\ vlState' = "typecheck"]_vars

\* The second judgment pass has decided to continue: the decision of the
\* first pass was reset by FIX_ISSUED and assigned anew.
C26_Witness ==
    /\ vlState = "issueFix"
    /\ vlCtx.lossCutDecision = "continue"
    /\ Len(vlLog) = 2
    /\ vlLog[1].decision = "continue"

\* The failure under judgment is on record: a non-null lastError is the
\* error of the last errorHistory record.
LastErrorRecorded(ctx) ==
    ctx.lastError # None =>
        /\ ctx.errorHistory # <<>>
        /\ Last(ctx.errorHistory).error = ctx.lastError[1]

\* C27: in the verification loop a judgment (the evaluation of the loss-cut
\* conditions, logged in vlLog) happens only while ERROR_STATE_RECORDED is
\* processed in recordErrorState, and whenever the loop is in
\* recordErrorState, hence at every judgment, a non-null lastError is already
\* the error of the last errorHistory record.
C27_RecordBeforeJudge ==
    /\ [][vlLog' # vlLog =>
             /\ vlState = VLRecord
             /\ vlEvent'.type = "ERROR_STATE_RECORDED"
             /\ LastErrorRecorded(vlCtx)]_vars
    /\ [](vlState = VLRecord => LastErrorRecorded(vlCtx))

\* The second judgment has just run on a failure that differs from the first
\* and is the last record of the history.
C27_Witness ==
    /\ vlEvent.type = "ERROR_STATE_RECORDED"
    /\ Len(vlLog) = 2
    /\ Len(vlCtx.errorHistory) = 2
    /\ vlCtx.lastError # None
    /\ vlCtx.errorHistory[2].error = vlCtx.lastError[1]
    /\ vlCtx.errorHistory[1].error # vlCtx.lastError[1]

\* A step that processes a failing, respectively passing, check-complete
\* event in the stage the event belongs to.
FailedInStage ==
    /\ vlState \in VLStages
    /\ vlEvent'.type = CompleteEvent(vlState)
    /\ ~vlEvent'.passed

PassedInStage ==
    /\ vlState \in VLStages
    /\ vlEvent'.type = CompleteEvent(vlState)
    /\ vlEvent'.passed

\* The frame of a failing check-complete event in its own stage: errorCount
\* grows by one, lastError is the event's error, one record of that error is
\* appended at the end of errorHistory, every other field keeps its value
\* and the loop moves to lossCutJudgment.recordErrorState.
FailureFrame ==
    FailedInStage =>
        /\ vlEvent'.error # None
        /\ vlCtx'.errorCount = vlCtx.errorCount + 1
        /\ vlCtx'.lastError = vlEvent'.error
        /\ vlCtx'.errorHistory =
              Append(vlCtx.errorHistory,
                     [error |-> vlEvent'.error[1], fixAttempt |-> "",
                      complexityDelta |-> "unchanged"])
        /\ vlCtx'.startedAt = vlCtx.startedAt
        /\ vlCtx'.currentStep = vlCtx.currentStep
        /\ vlCtx'.lossCutDecision = vlCtx.lossCutDecision
        /\ vlCtx'.collaborationCheckResult = vlCtx.collaborationCheckResult
        /\ vlCtx'.aiPrincipleCheckResult = vlCtx.aiPrincipleCheckResult
        /\ vlState' = VLRecord

MonitorFrame(old, new) ==
    new = old \/ (new # None /\ new[1] \in PrincipleCheckResults)

C29_ElapsedFromRunStart ==
    [][vlLog' # vlLog =>
          /\ checkOver30Min(vlCtx, now) => now - vlRunStart >= Over30MinMs
          /\ (/\ now - vlRunStart < Over30MinMs
              /\ vlCtx.errorCount < ErrorCountLimit
              /\ ~RecursEarlier(vlCtx))
                => vlCtx'.lossCutDecision = "continue"]_vars

\* h is an initial segment of g.
IsPrefix(h, g) == Len(h) <= Len(g) /\ SubSeq(g, 1, Len(h)) = h

EntersStage == vlState' \in VLStages /\ vlState' # vlState

\* C31: a step that enters typecheck, lint or test, the re-entry into
\* typecheck by FIX_ISSUED included, invokes checkCollaborationPrinciples once
\* and checkAIPrinciples once, and no other step invokes either; so the
\* number of invocations of each equals the number of stage entries, and both
\* are 3 when the run has passed without a failure.
C31_MonitorsOnEveryEntry ==
    /\ [][vlCalls' =
             IF EntersStage
             THEN [entries |-> vlCalls.entries + 1,
                   checkCollaborationPrinciples |->
                       vlCalls.checkCollaborationPrinciples + 1,
                   checkAIPrinciples |-> vlCalls.checkAIPrinciples + 1]
             ELSE vlCalls]_vars
    /\ [](/\ vlCalls.checkCollaborationPrinciples = vlCalls.entries
          /\ vlCalls.checkAIPrinciples = vlCalls.entries)
    /\ []((vlState = "verificationPassed" /\ vlCtx.errorCount = 0) =>
             /\ vlCalls.checkCollaborationPrinciples = 3
             /\ vlCalls.checkAIPrinciples = 3)

\* typecheck has just been re-entered by FIX_ISSUED after a failure of lint:
\* the third stage entry of the run, and the third call of each check.
C31_Witness ==
    /\ vlState = "typecheck"
    /\ vlEvent.type = "FIX_ISSUED"
    /\ vlCtx.errorHistory # <<>>
    /\ vlCtx.errorHistory[1].error.step = "lint"
    /\ vlCalls = [entries |-> 3, checkCollaborationPrinciples |-> 3,
                  checkAIPrinciples |-> 3]

\* The orchestrator's context holds the hand-over of the given output.
HandedOver(ctx, o) ==
    /\ ctx.sp3Result = Some(o)
    /\ ctx.lastError = o.lastError
    /\ ctx.errorHistory = o.errorHistory

\* C32: when the verification loop ends with passed = false and
\* principleViolation = false, the orchestrator enters recoveryFlow with
\* sp3Result the whole output and lastError / errorHistory those of the
\* output; the step to recoveryExit changes none of the three, so they hold
\* the same values in recoveryExit.
C32_HandOverOnAbandonment ==
    /\ [][(/\ mfState = "sp3Verification"
           /\ mfEvent'.type = "xstate.done.actor.sp3Machine"
           /\ mfSp3Output'[1].passed = FALSE
           /\ mfSp3Output'[1].principleViolation = FALSE) =>
             /\ mfState' = "recoveryFlow"
             /\ HandedOver(mfCtx', mfSp3Output'[1])]_vars
    /\ [][MFEnters("recoveryExit") =>
             /\ mfCtx'.sp3Result = mfCtx.sp3Result
             /\ mfCtx'.lastError = mfCtx.lastError
             /\ mfCtx'.errorHistory = mfCtx.errorHistory]_vars
    /\ [](mfState \in {"recoveryFlow", "recoveryExit"} =>
             /\ mfSp3Output # None
             /\ HandedOver(mfCtx, mfSp3Output[1]))

\* The flow ended in recoveryExit after a verification loop abandoned with
\* two different failures on record; the context still holds them in order.
C32_Witness ==
    /\ mfState = "recoveryExit"
    /\ Len(mfCtx.errorHistory) = 2
    /\ mfCtx.errorHistory[1].error.step = "lint"
    /\ mfCtx.errorHistory[2].error.step = "test"
    /\ mfCtx.lastError = Some(mfCtx.errorHistory[2].error)
    /\ mfCtx.sp3Result[1].errorHistory = mfCtx.errorHistory

\* The result recorded for the i-th level, and the levels evaluated so far
\* being the first n levels in the order L0, L1, L2, L3.
L03Result(i) == l03Ctx.evaluationResults[L03Levels[i]]

L03InOrder == l03Order = SubSeq(L03Levels, 1, Len(l03Order))

\* C33: the levels are evaluated in the order L0, L1, L2, L3, and a level
\* that was not evaluated has a null result; in failed the level evaluated
\* last has passed = false, every level before it passed and every later
\* level is null; in passed all four levels were evaluated and passed; and in
\* a final state output.allPassed is true iff the state is passed.
C33_PrerequisiteGate ==
    /\ L03InOrder
    /\ \A i \in DOMAIN L03Levels :
          (L03Result(i) = None) <=> (i > Len(l03Order))
    /\ \A i \in 1..(Len(l03Order) - 1) : L03Result(i)[1].passed = TRUE
    /\ l03State = "failed" =>
          /\ l03Order # <<>>
          /\ L03Result(Len(l03Order))[1].passed = FALSE
    /\ l03State = "passed" =>
          /\ l03Order = L03Levels
          /\ \A i \in DOMAIN L03Levels : L03Result(i)[1].passed = TRUE
    /\ l03State \in L03Checks =>
          /\ Len(l03Order) < 4
          /\ l03State = <<"l0Check", "l1Check", "l2Check", "l3Check">>[Len(l03Order) + 1]
    /\ l03State \in L03Final =>
          (L03Output(l03Ctx).allPassed <=> l03State = "passed")

\* L0 and L1 passed and L2 failed: the gate is in failed with L3 not
\* evaluated, and the output reports allPassed = false.
C33_Witness ==
    /\ l03State = "failed"
    /\ l03Order = <<"l0", "l1", "l2">>
    /\ l03Ctx.evaluationResults.l2 # None
    /\ l03Ctx.evaluationResults.l2[1].passed = FALSE
    /\ l03Ctx.evaluationResults.l3 = None
    /\ L03Output(l03Ctx).allPassed = FALSE

\* C34: aiLedExit is entered only from selectingPrompt by SELECT_PROMPT and
\* selectingPrompt only from decidingDivision by DECIDE_DIVISION with result
\* aiLed, so the path to aiLedExit is analyzingTask, decidingDivision,
\* selectingPrompt, aiLedExit; a TASK_ANALYZED with characteristic
\* designDecision or domainSpecific leads from analyzingTask to humanLedExit;
\* in every final state output.promptTechnique is non-null iff
\* output.result = aiLed.
C34_Classifier ==
    /\ [][(sp2State' = "aiLedExit" /\ sp2State # "aiLedExit") =>
             sp2State = "selectingPrompt" /\ sp2Event'.type = "SELECT_PROMPT"]_vars
    /\ [][(sp2State' = "selectingPrompt" /\ sp2State # "selectingPrompt") =>
             /\ sp2State = "decidingDivision"
             /\ sp2Event' = SEv("DECIDE_DIVISION", "aiLed")]_vars
    /\ [][(/\ sp2State = "analyzingTask"
           /\ sp2Event'.type = "TASK_ANALYZED"
           /\ sp2Event'.value \in {"designDecision", "domainSpecific"}) =>
             sp2State' = "humanLedExit"]_vars
    /\ [](sp2State = "aiLedExit" =>
             sp2Path = <<"analyzingTask", "decidingDivision",
                         "selectingPrompt", "aiLedExit">>)
    /\ [](sp2State \in SP2Final =>
             (SP2Output(sp2Ctx).promptTechnique # None
                <=> SP2Output(sp2Ctx).result = "aiLed"))

\* The classifier ended in aiLedExit for a task of unknown characteristic,
\* with the selected technique in its output.
C34_Witness ==
    /\ sp2State = "aiLedExit"
    /\ sp2Ctx.taskCharacteristic = Some("unknown")
    /\ SP2Output(sp2Ctx) = [result |-> "aiLed",
                            promptTechnique |-> Some("react"),
                            taskCharacteristic |-> "unknown"]

\* C35: in the verification loop driven by failing events that carry their
\* error, errorCount is the length of errorHistory and at most 3 in every
\* state, and the step in which the timer fires changes neither and enters
\* lossCutJudgment.recordErrorState.
C35_Counters ==
    /\ [](/\ vlCtx.errorCount = Len(vlCtx.errorHistory)
          /\ vlCtx.errorCount <= ErrorCountLimit)
    /\ [][vlEvent'.type = "xstate.after" =>
             /\ vlCtx'.errorCount = vlCtx.errorCount
             /\ vlCtx'.errorHistory = vlCtx.errorHistory
             /\ vlState' = VLRecord]_vars

\* The timer has just fired in a run with two failures on record.
C35_Witness ==
    /\ vlEvent.type = "xstate.after"
    /\ vlState = VLRecord
    /\ vlCtx.errorCount = 2
    /\ Len(vlCtx.errorHistory) = 2

\* C36: in the verification loop every errorHistory record has
\* fixAttempt = "" and complexityDelta = unchanged, so condition 3 (growing
\* complexity) is false in every state, and a judgment that decides cut is
\* one in which condition 1, 2 or 4 holds.
C36_ComplexityNeverGrows ==
    /\ [](\A k \in DOMAIN vlCtx.errorHistory :
             /\ vlCtx.errorHistory[k].fixAttempt = ""
             /\ vlCtx.errorHistory[k].complexityDelta = "unchanged")
    /\ [](~checkGrowingComplexity(vlCtx))
    /\ [][(vlLog' # vlLog /\ vlCtx'.lossCutDecision = "cut") =>
             \/ checkErrorCount3OrMore(vlCtx)
             \/ checkOver30Min(vlCtx, now)
             \/ checkRecurringError(vlCtx)]_vars

\* A second typecheck failure with the message of the first was judged cut:
\* by condition 4, conditions 1 and 2 being false.
C36_Witness ==
    /\ vlState = "verificationFailed"
    /\ vlCtx.lossCutDecision = "cut"
    /\ Len(vlCtx.errorHistory) = 2
    /\ vlCtx.errorHistory[2].error.step = "typecheck"
    /\ ~checkErrorCount3OrMore(vlCtx)
    /\ ~checkOver30Min(vlCtx, now)
    /\ checkRecurringError(vlCtx)

\* C37: the timer stays armed in every non-final state until it fires, so it
\* fires wherever the run is; the step in which it fires leaves a non-final
\* state for lossCutJudgment.recordErrorState with the context unchanged;
\* once it has fired the run is in recordErrorState or in verificationFailed,
\* never in a stage, in issueFix or in verificationPassed, and the judgment
\* that follows decides cut and ends the run in verificationFailed.
C37_TimeoutIsFinal ==
    /\ []((vlState \notin VLFinal /\ vlFiredAt = {}) => vlTimer.pending)
    /\ [][vlEvent'.type = "xstate.after" =>
             /\ vlState \notin VLFinal
             /\ vlState' = VLRecord
             /\ vlCtx' = vlCtx
             /\ vlFiredAt' # {}]_vars
    /\ [](vlFiredAt # {} => vlState \in {VLRecord, "verificationFailed"})
    /\ [][(vlFiredAt # {} /\ vlLog' # vlLog) =>
             /\ vlCtx'.lossCutDecision = "cut"
             /\ vlState' = "verificationFailed"]_vars
    /\ []((vlFiredAt # {} /\ vlState = "verificationFailed") =>
             /\ vlCtx.lossCutDecision = "cut"
             /\ VLOutput(vlCtx).passed = FALSE)

\* The first failure was judged continue, the timer fired while the run
\* waited in issueFix, and the judgment that followed cut at errorCount 1.
C37_Witness ==
    /\ vlState = "verificationFailed"
    /\ vlFiredAt # {}
    /\ vlCtx.errorCount = 1
    /\ vlLog = <<[errorCount |-> 1, decision |-> "continue"],
                 [errorCount |-> 1, decision |-> "cut"]>>

\* C39: HUMAN_REVIEW_DONE taken in humanReview leads to sp3Verification
\* whether approved is true or false, and writes approved to
\* executionResult.humanReviewed leaving every other field as it was; a
\* rejected review therefore leaves an AI-generated result marked unreviewed
\* on its way to SP-3 (taskCompleted with that result is the witness).
C39_RejectedReviewProceeds ==
    [][(mfState = "humanReview" /\ mfEvent'.type = "HUMAN_REVIEW_DONE") =>
          /\ mfState' = "sp3Verification"
          /\ mfCtx'.executionResult # None
          /\ mfCtx'.executionResult[1].humanReviewed = mfEvent'.flag
          /\ mfCtx'.executionResult[1].isAiGenerated
          /\ mfCtx' = [mfCtx EXCEPT !.executionResult =
                          Some([mfCtx.executionResult[1] EXCEPT
                                  !.humanReviewed = mfEvent'.flag])]]_vars

\* The task completed with an AI-generated result whose review was rejected.
C39_Witness ==
    /\ mfState = "taskCompleted"
    /\ mfCtx.executionResult # None
    /\ mfCtx.executionResult[1].isAiGenerated
    /\ mfCtx.executionResult[1].humanReviewed = FALSE
    /\ mfReviewed

\* The step sp3Verification -> brightLinesCheck of the orchestrator.
LoopsBack == mfState = "sp3Verification" /\ mfState' = "brightLinesCheck"

\* C40: the step from sp3Verification back to brightLinesCheck stores the
\* verification loop's output in sp3Result, sets hasPrincipleViolation and
\* leaves taskDescription, brightLinesResult, sp1Result, sp2Result,
\* executionResult, adjustmentCount, lastError, errorHistory and
\* recoveryResult as they were; no step turns hasPrincipleViolation from
\* true to false, so it is still true in taskCompleted after a loop-back.
C40_LoopBackFrame ==
    /\ [][LoopsBack =>
             /\ mfCtx'.sp3Result = mfSp3Output'
             /\ mfCtx'.sp3Result[1].principleViolation = TRUE
             /\ mfCtx'.hasPrincipleViolation = TRUE
             /\ mfCtx'.taskDescription = mfCtx.taskDescription
             /\ mfCtx'.brightLinesResult = mfCtx.brightLinesResult
             /\ mfCtx'.sp1Result = mfCtx.sp1Result
             /\ mfCtx'.sp2Result = mfCtx.sp2Result
             /\ mfCtx'.executionResult = mfCtx.executionResult
             /\ mfCtx'.adjustmentCount = mfCtx.adjustmentCount
             /\ mfCtx'.lastError = mfCtx.lastError
             /\ mfCtx'.errorHistory = mfCtx.errorHistory
             /\ mfCtx'.recoveryResult = mfCtx.recoveryResult]_vars
    /\ [][mfCtx.hasPrincipleViolation => mfCtx'.hasPrincipleViolation]_vars

\* After a loop-back the human-led path was taken again and the task
\* completed with the flag still set and the results of the second round.
C40_Witness ==
    /\ mfState = "taskCompleted"
    /\ mfCtx.hasPrincipleViolation
    /\ mfCtx.sp2Result # None
    /\ mfCtx.sp2Result[1].result = "humanLed"
    /\ mfCtx.executionResult # None
    /\ mfCtx.executionResult[1].isAiGenerated = FALSE
    /\ mfCtx.sp3Result[1].principleViolation = FALSE

\* C38: with every awaited check-complete, ERROR_STATE_RECORDED and
\* FIX_ISSUED event eventually delivered, every run of the verification loop
\* eventually reaches verificationPassed or verificationFailed.
C38_Terminates == <>(vlState \in VLFinal)
====
